---- MODULE Spec2Model ----
(***************************************************************************)
(* A model of the bellhop Python wrapper: the model registry (models.py,   *)
(* main.py), the simulator adapter (bellhop.py), the parts of Environment  *)
(* the registry and the adapter read (environment.py) and the compute      *)
(* facade (main.py).                                                       *)
(***************************************************************************)
EXTENDS Integers, Sequences, FiniteSets, TLC

VARIABLES
    _models,    \* Models._models: the class-level list of adapters, in registration order
    path,       \* the executable names shutil.which resolves on the search path
    env,        \* one Environment object (the fields the registry and the adapter read)
    ret,        \* the last call observed: its operation, arguments and outcome
    files,      \* the working files on disk: <<base name, extension>> -> content
    run,        \* the Adapter.run call in progress: its arguments, position and locals
    comp,       \* the compute call in progress: its arguments, position and locals
    heap,       \* the array objects, and the Environment objects that refer to them
    calls       \* the Adapter.run calls of two threads: as run, one for each thread

regVars == <<_models, path, env, ret, comp, heap, calls>>

runVars == <<files, run, comp, heap, calls>>

vars == <<_models, path, env, ret, files, run, comp, heap, calls>>

\* no array object and no Environment object
NoHeap == [arrays |-> <<>>, objs |-> <<>>]

-----------------------------------------------------------------------------
(* Python values *)

\* Python's None, for string-valued and object-valued arguments
None == "None"

\* Python's None for an Optional[int] argument (dim)
NoneInt == -1

\* a call that returned v / a call that raised exception e
Ok(v) == [ok |-> TRUE, val |-> v]

Raise(e) == [ok |-> FALSE, err |-> e]

\* env=None: the absence of an Environment argument
NoEnv == [none |-> TRUE]

\* None as the value of an array-valued field
NoArray == [none |-> TRUE]

\* None as an Optional[str] result that is otherwise a text
NoText == [none |-> TRUE]

\* None as the fname_base argument
NoBase == <<"None", 0>>

\* Python truthiness of an Optional[int]: None and 0 are falsy
TruthyInt(x) == x /= NoneInt /\ x /= 0

\* Python truthiness of an Optional[str]: None and "" are falsy
TruthyStr(s) == s /= None /\ s /= ""

-----------------------------------------------------------------------------
(* constants.py (not among the sources): the names the tests and docstrings fix *)

name_2d == "bellhop"

name_3d == "bellhop3d"

exe_2d == "bellhop.exe"

exe_3d == "bellhop3d.exe"

dim_2d == 2

dim_3d == 3

two_d == "2D"

two_half_d == "2.5D"

three_d == "3D"

from_file == "from-file"

flat == "flat"

vacuum == "vacuum"

acousto_elastic == "acousto-elastic"

linear == "linear"

quadrilateral == "quadrilateral"

\* _File_Ext: the extensions of the working files
ext_env == "env"

ext_prt == "prt"

ext_arr == "arr"

ext_ray == "ray"

ext_shd == "shd"

ext_ati == "ati"

ext_bty == "bty"

ext_trc == "trc"

ext_brc == "brc"

ext_sbp == "sbp"

ext_ssp == "ssp"

\* vars(_File_Ext): every known extension
all_ext == {ext_env, ext_prt, ext_arr, ext_ray, ext_shd, ext_ati, ext_bty,
            ext_trc, ext_brc, ext_sbp, ext_ssp}

-----------------------------------------------------------------------------
(* bellhop.py: BellhopSimulator *)

\* BellhopSimulator.__init__: an adapter is its name, executable and dimension
BellhopSimulator(name, exe, dim) == [name |-> name, exe |-> exe, dim |-> dim]

\* the keys of BellhopSimulator.taskmap
taskmap_keys == {"arrivals", "eigenrays", "rays", "coherent", "incoherent", "semicoherent"}

\* shutil.which(exe) is not None
which(p, exe) == exe \in p

\* mutant of required_dim: the environment's dimension always wins over dim
required_dim_env_first(e, dim) ==
    IF e /= NoEnv THEN e._dimension ELSE dim

\* bellhop.py:47-48: if env is not None: dim = dim or env._dimension
required_dim(e, dim) ==
    IF e /= NoEnv
    THEN (IF TruthyInt(dim) THEN dim ELSE e._dimension)
    ELSE dim

\* mutant of supports: the dimension is not compared
supports_no_dim(m, p, e, task, exe, dim) ==
    /\ which(p, IF TruthyStr(exe) THEN exe ELSE m.exe)
    /\ (task = None \/ task \in taskmap_keys)

\* BellhopSimulator.supports(env, task, exe, dim), on search path p
supports(m, p, e, task, exe, dim) ==
    LET d          == required_dim(e, dim)
        which_bool == which(p, IF TruthyStr(exe) THEN exe ELSE m.exe)
        task_bool  == (task = None) \/ (task \in taskmap_keys)
        dim_bool   == (d = NoneInt) \/ (d = m.dim)
    IN  which_bool /\ task_bool /\ dim_bool

-----------------------------------------------------------------------------------------------------------------------------------------------------
(* environment.py: Environment. Lengths, depths and speeds are whole numbers. *)

\* constants.py, Defaults: the values Environment() starts with and _finalise fills in
sound_speed == 1500

beam_angle_halfspace == 90

beam_angle_fullspace == 180

spline == "spline"

\* a scalar field value (kept as one row of one element), and an N x ncols array of
\* rows
Scalar(x) == [nd |-> 0, v |-> <<<<x>>>>]

Array2(rows) == [nd |-> 2, v |-> rows]

\* a one-dimensional array (kept as one row)
Array1(xs) == [nd |-> 1, v |-> <<xs>>]

\* the sound speed as the user gives it: a scalar, or an array whose first column is
\* the depth and whose second is the speed
SspScalar(c) ==
    [kind |-> "scalar", index |-> <<>>, speed |-> <<c>>, ncols |-> 0, depth_col |-> FALSE]

SspArray(index, speed, ncols) ==
    [kind |-> "array", index |-> index, speed |-> speed, ncols |-> ncols,
     depth_col |-> FALSE]

\* a pandas DataFrame of speeds: its index (the depths), its first column, the number
\* of its speed columns, and whether the depths are still a column named "depth"
SspTable(index, speed, ncols, depth_col) ==
    [kind |-> "table", index |-> index, speed |-> speed, ncols |-> ncols,
     depth_col |-> depth_col]

\* Environment(): the dataclass defaults of the modelled fields. checked is history,
\* not a field: it says that check() has succeeded on this object since the last
\* assignment to one of its fields.
Environment(name, dimension) ==
    [name |-> name, dimension |-> dimension, _dimension |-> 2,
     _num_media |-> 1, task |-> None,
     soundspeed |-> SspScalar(sound_speed),
     soundspeed_interp |-> linear,
     depth |-> Scalar(25),
     depth_max |-> NoneInt,
     _bathymetry |-> flat,
     _altimetry |-> flat,
     surface |-> NoArray,
     surface_boundary_condition |-> vacuum,
     surface_reflection_coefficient |-> NoArray,
     bottom_boundary_condition |-> acousto_elastic,
     bottom_reflection_coefficient |-> NoArray,
     source_directionality |-> NoArray,
     source_depth |-> Scalar(5),
     receiver_depth |-> Scalar(10),
     receiver_range |-> Scalar(1000),
     beam_angle_min |-> NoneInt,
     beam_angle_max |-> NoneInt,
     box_depth |-> NoneInt,
     interference_mode |-> None,
     checked |-> FALSE,
     other |-> {}]

\* numpy.size of a field value: 1 for a scalar (nd = 0), rows x columns for an array
np_size(a) == IF a.nd = 0 THEN 1 ELSE Len(a.v) * Len(a.v[1])

\* the largest and the smallest of two numbers
Max2(a, b) == IF a >= b THEN a ELSE b

Min2(a, b) == IF a <= b THEN a ELSE b

\* numpy.max of column c of an array
RECURSIVE col_max(_, _, _)
col_max(rows, c, i) ==
    IF i = Len(rows) THEN rows[i][c] ELSE Max2(rows[i][c], col_max(rows, c, i + 1))

\* numpy.max and numpy.min of a row, and of all the elements of a field value
RECURSIVE row_max(_, _)
row_max(xs, i) == IF i = Len(xs) THEN xs[i] ELSE Max2(xs[i], row_max(xs, i + 1))

RECURSIVE row_min(_, _)
row_min(xs, i) == IF i = Len(xs) THEN xs[i] ELSE Min2(xs[i], row_min(xs, i + 1))

RECURSIVE np_max_from(_, _)
np_max_from(rows, i) ==
    IF i = Len(rows) THEN row_max(rows[i], 1)
    ELSE Max2(row_max(rows[i], 1), np_max_from(rows, i + 1))

RECURSIVE np_min_from(_, _)
np_min_from(rows, i) ==
    IF i = Len(rows) THEN row_min(rows[i], 1)
    ELSE Min2(row_min(rows[i], 1), np_min_from(rows, i + 1))

np_max(a) == np_max_from(a.v, 1)

np_min(a) == np_min_from(a.v, 1)

\* numpy.all(numpy.diff(x) > 0)
strictly_increasing(x) == \A i \in 1..(Len(x) - 1) : x[i + 1] > x[i]

\* column c of an array
column(rows, c) == [i \in 1..Len(rows) |-> rows[i][c]]

\* _finalise, lines 159-162: the dimension
finalise_dimension(e) ==
    IF e.dimension = two_d THEN [e EXCEPT !._dimension = 2]
    ELSE IF e.dimension = two_half_d \/ e.dimension = three_d
         THEN [e EXCEPT !._dimension = 3]
         ELSE e

\* _finalise, lines 164-171: the flags are set, and never cleared
finalise_flags(e) ==
    LET e1 == IF np_size(e.depth) > 1 THEN [e EXCEPT !._bathymetry = from_file] ELSE e
        e2 == IF e1.surface /= NoArray THEN [e1 EXCEPT !._altimetry = from_file] ELSE e1
        e3 == IF e2.bottom_reflection_coefficient /= NoArray
              THEN [e2 EXCEPT !.bottom_boundary_condition = from_file] ELSE e2
    IN  IF e3.surface_reflection_coefficient /= NoArray
        THEN [e3 EXCEPT !.surface_boundary_condition = from_file] ELSE e3

\* _finalise, lines 173-178: depth_max, when it is None
finalise_depth_max(e) ==
    IF e.depth_max /= NoneInt THEN e
    ELSE IF np_size(e.depth) = 1 THEN [e EXCEPT !.depth_max = e.depth.v[1][1]]
    ELSE [e EXCEPT !.depth_max = col_max(e.depth.v, 2, 1)]

\* _finalise, lines 180-201: the sound speed becomes a table; an array that is not
\* N x 2 raises ValueError
finalise_soundspeed(e) ==
    LET ss == e.soundspeed
        t  == IF ss.kind = "table" THEN ss
              ELSE IF ss.kind = "scalar"
              THEN SspTable(<<0, e.depth_max>>, <<ss.speed[1], ss.speed[1]>>, 1, FALSE)
              ELSE IF Len(ss.index) = 1 /\ ss.ncols = 2
              THEN SspTable(<<Min2(0, ss.index[1]), Max2(ss.index[1], e.depth_max)>>,
                            <<ss.speed[1], ss.speed[1]>>, 1, FALSE)
              ELSE SspTable(ss.index, ss.speed, 1, FALSE)
    IN  IF ss.kind = "array" /\ ss.ncols /= 2
        THEN [env |-> e, res |-> Raise("ValueError")]
        ELSE [env |-> [e EXCEPT !.soundspeed = [t EXCEPT !.depth_col = FALSE]],
              res |-> Ok(None)]

\* _finalise, lines 206-241: the beam angles and the box, each set when it is None
\* (the box depth in hundredths)
finalise_beam(e) ==
    LET half == np_min(e.receiver_range) >= 0
        e1 == IF e.beam_angle_min /= NoneInt THEN e
              ELSE [e EXCEPT !.beam_angle_min =
                        IF half THEN -beam_angle_halfspace ELSE -beam_angle_fullspace]
        e2 == IF e1.beam_angle_max /= NoneInt THEN e1
              ELSE [e1 EXCEPT !.beam_angle_max =
                        IF half THEN beam_angle_halfspace ELSE beam_angle_fullspace]
    IN  IF e2.box_depth /= NoneInt THEN e2
        ELSE [e2 EXCEPT !.box_depth = 101 * e2.depth_max]

\* Environment._finalise (lines 153-241)
_finalise(e) ==
    LET f == finalise_soundspeed(finalise_depth_max(finalise_flags(finalise_dimension(e))))
    IN  IF f.res.ok THEN [env |-> finalise_beam(f.env), res |-> f.res] ELSE f

\* Environment._check_env_header: assert _num_media == 1
_check_env_header(e) == e._num_media = 1

\* the assertions on an Nx2 array of ranges: lines 249-254 and 262-265
ranges_ok(a, max_range) ==
    /\ a.nd = 2
    /\ Len(a.v[1]) = 2
    /\ a.v[Len(a.v)][1] >= max_range
    /\ strictly_increasing(column(a.v, 1))

\* Environment._check_env_surface (lines 247-257)
_check_env_surface(e) ==
    /\ e.surface /= NoArray =>
          /\ np_size(e.surface) > 1
          /\ ranges_ok(e.surface, np_max(e.receiver_range))
          /\ e.surface.v[1][1] <= 0
    /\ e.surface_reflection_coefficient /= NoArray =>
          e.surface_boundary_condition = from_file

\* Environment._check_env_depth (lines 259-270)
_check_env_depth(e) ==
    /\ np_size(e.depth) > 1 =>
          /\ ranges_ok(e.depth, np_max(e.receiver_range))
          /\ e._bathymetry = from_file
    /\ e.bottom_reflection_coefficient /= NoArray =>
          e.bottom_boundary_condition = from_file
    /\ np_max(e.source_depth) <= e.depth_max
    /\ np_max(e.receiver_depth) <= e.depth_max

\* numpy.interp(x, xp, fp) between whole numbers, rounded down; x is within xp
RECURSIVE np_interp(_, _, _, _)
np_interp(x, xp, fp, i) ==
    IF x <= xp[1] THEN fp[1]
    ELSE IF i >= Len(xp) THEN fp[Len(xp)]
    ELSE IF x <= xp[i + 1]
         THEN fp[i] + ((fp[i + 1] - fp[i]) * (x - xp[i])) \div (xp[i + 1] - xp[i])
         ELSE np_interp(x, xp, fp, i + 1)

\* _check_env_ssp, lines 291-299: the table is cut at depth_max. indlarger rows of
\* depths are kept and depth_max is added; of the speeds indlarger-1 are kept and
\* the new_row frame adds two: depth_max itself and the interpolated speed
ssp_trim(t, depth_max) ==
    LET larger == {i \in 1..Len(t.index) : t.index[i] > depth_max}
        indlarger == (CHOOSE i \in larger : \A k \in larger : i <= k) - 1
    IN  [t EXCEPT !.index = Append(SubSeq(t.index, 1, indlarger), depth_max),
                  !.speed = SubSeq(t.speed, 1, indlarger - 1)
                            \o <<depth_max, np_interp(depth_max, t.index, t.speed, 1)>>]

\* Environment._check_env_ssp (lines 272-299): the assertions, then the cut; without a
\* depth beyond depth_max the index [0][0] of an empty argwhere raises IndexError
_check_env_ssp(e) ==
    LET t == e.soundspeed
        rows == Len(t.index)
        asserted ==
            /\ t.kind = "table"
            /\ rows * t.ncols > 1
            /\ t.ncols > 1 => e.soundspeed_interp = quadrilateral
            /\ IF e.soundspeed_interp = spline THEN rows > 3 ELSE rows > 1
            /\ t.index[1] <= 0
            /\ strictly_increasing(t.index)
            /\ (e.depth_max /= t.index[rows] /\ t.ncols > 1) => FALSE
    IN  IF ~asserted THEN [env |-> e, res |-> Raise("AssertionError")]
        ELSE IF e.depth_max = t.index[rows] THEN [env |-> e, res |-> Ok(None)]
        ELSE IF \A i \in 1..rows : t.index[i] <= e.depth_max
        THEN [env |-> e, res |-> Raise("IndexError")]
        ELSE [env |-> [e EXCEPT !.soundspeed = ssp_trim(t, e.depth_max)],
              res |-> Ok(None)]

\* Environment._check_env_sbp (lines 302-307)
_check_env_sbp(e) ==
    e.source_directionality /= NoArray =>
        /\ np_size(e.source_directionality) > 1
        /\ e.source_directionality.nd = 2
        /\ Len(e.source_directionality.v[1]) = 2
        /\ \A i \in 1..Len(e.source_directionality.v) :
              /\ e.source_directionality.v[i][1] >= -180
              /\ e.source_directionality.v[i][1] <= 180

\* Environment._check_env_beam (lines 309-313), the angle ranges
_check_env_beam(e) ==
    /\ e.beam_angle_min >= -180 /\ e.beam_angle_min <= 180
    /\ e.beam_angle_max >= -180 /\ e.beam_angle_max <= 180

\* the dataclass fields of Environment that are modelled
FieldNames ==
    {"name", "dimension", "_dimension", "_num_media", "task", "soundspeed",
     "soundspeed_interp", "depth", "depth_max", "_bathymetry", "_altimetry", "surface",
     "surface_boundary_condition", "surface_reflection_coefficient",
     "bottom_boundary_condition", "bottom_reflection_coefficient",
     "source_directionality", "source_depth", "receiver_depth", "receiver_range",
     "beam_angle_min", "beam_angle_max", "box_depth", "interference_mode"}

\* attributes of an Environment that are not fields: its methods
MethodNames == {"check", "copy", "unwrap", "write", "reset"}

\* attributes of the class that are neither fields nor methods: __slots__ is the ()
\* of collections.abc.MutableMapping, __hash__ the None of a dataclass with eq
ClassAttrs == {"__slots__", "__hash__"}

\* hasattr(self, key): a field, a method, another attribute of the class, or an
\* attribute set on the instance before
hasattr(e, key) == key \in FieldNames \cup MethodNames \cup ClassAttrs \cup e.other

\* constants.py, _Maps: the fields with an enumerated set of values
MapNames ==
    {"soundspeed_interp", "surface_boundary_condition", "bottom_boundary_condition",
     "_bathymetry", "_altimetry"}

\* set(getattr(_Maps, key).values())
allowed_values(key) ==
    IF key = "soundspeed_interp" THEN {linear, spline, quadrilateral}
    ELSE IF key \in {"surface_boundary_condition", "bottom_boundary_condition"}
    THEN {vacuum, acousto_elastic, "rigid", from_file}
    ELSE {flat, from_file}

\* Environment.__setattr__ (lines 618-633); isnone says that the value is None. The
\* value of an attribute that is not a field is kept as the attribute's name in other.
setattr(e, key, value, isnone) ==
    IF ~hasattr(e, key) THEN [env |-> e, res |-> Raise("KeyError")]
    ELSE IF key \in MapNames /\ ~isnone /\ value \notin allowed_values(key)
    THEN [env |-> e, res |-> Raise("ValueError")]
    ELSE IF key \in FieldNames
    THEN [env |-> [e EXCEPT ![key] = value, !.checked = FALSE], res |-> Ok(None)]
    ELSE [env |-> [e EXCEPT !.other = e.other \cup {key}], res |-> Ok(None)]

\* Environment.check (lines 139-151): finalise, then the assertions in their order;
\* an AssertionError becomes a ValueError, any other exception passes through. The
\* fields set before the exception stay set.
check(e) ==
    LET f == _finalise([e EXCEPT !.checked = FALSE])
    IN  IF ~f.res.ok THEN f
        ELSE IF ~(_check_env_header(f.env) /\ _check_env_surface(f.env)
                  /\ _check_env_depth(f.env))
        THEN [env |-> f.env, res |-> Raise("ValueError")]
        ELSE LET c == _check_env_ssp(f.env)
             IN  IF ~c.res.ok
                 THEN [env |-> c.env,
                       res |-> IF c.res.err = "AssertionError" THEN Raise("ValueError")
                               ELSE c.res]
                 ELSE IF ~(_check_env_sbp(c.env) /\ _check_env_beam(c.env))
                 THEN [env |-> c.env, res |-> Raise("ValueError")]
                 ELSE [env |-> [c.env EXCEPT !.checked = TRUE], res |-> Ok("self")]

\* the fields that hold a number, an array of numbers or None
ArrayFields ==
    {"depth", "surface", "surface_reflection_coefficient",
     "bottom_reflection_coefficient", "source_directionality", "source_depth",
     "receiver_depth", "receiver_range"}

\* the fields that hold a float or None
FloatFields == {"depth_max", "beam_angle_min", "beam_angle_max", "box_depth"}

\* Environment.copy (lines 651-657): a new instance made of the values of the fields;
\* an attribute set on the instance that is not a field is not carried over, and
\* the new instance has not been checked
copy(e) == [e EXCEPT !.other = {}, !.checked = FALSE]

\* isinstance(v, (list, tuple, ndarray)) for the value v of field key
is_sequence(key, v) == key \in ArrayFields /\ v /= NoArray /\ v.nd > 0

\* iterating an array: the elements of a one-dimensional array, the rows of a
\* two-dimensional one
elements(a) ==
    IF a.nd = 1 THEN [i \in 1..Len(a.v[1]) |-> Scalar(a.v[1][i])]
    ELSE [i \in 1..Len(a.v) |-> Array1(a.v[i])]

\* unwrap, lines 327-334: the values of one key, a scalar as a singleton. Of an
\* attribute that is not a field: an attribute set on the instance stands for its
\* value, __slots__ is the empty tuple and __hash__ is None
values_of(e, key) ==
    IF key \in FieldNames
    THEN IF is_sequence(key, e[key]) THEN elements(e[key]) ELSE <<e[key]>>
    ELSE IF key \in e.other THEN <<key>>
    ELSE IF key = "__slots__" THEN <<>>
    ELSE IF key = "__hash__" THEN <<None>>
    ELSE <<key>>

\* unwrap with the first key varying fastest
RECURSIVE product_first_fastest(_)
product_first_fastest(values) ==
    IF Len(values) = 0 THEN << <<>> >>
    ELSE LET head == values[Len(values)]
             rest == product_first_fastest(SubSeq(values, 1, Len(values) - 1))
         IN  [n \in 1..(Len(head) * Len(rest)) |->
                 Append(rest[((n - 1) % Len(rest)) + 1], head[((n - 1) \div Len(rest)) + 1])]

\* itertools.product(*values): every combination, the last value list varying fastest
RECURSIVE product(_)
product(values) ==
    IF Len(values) = 0 THEN << <<>> >>
    ELSE LET head == Head(values)
             rest == product(Tail(values))
         IN  [n \in 1..(Len(head) * Len(rest)) |->
                 <<head[((n - 1) \div Len(rest)) + 1]>> \o rest[((n - 1) % Len(rest)) + 1]]

\* the power of ten that "%g" rounds a non-negative whole number to: six significant
\* digits are kept
RECURSIVE scale_g(_)
scale_g(x) == IF x < 1000000 THEN 1 ELSE 10 * scale_g(x \div 10)

\* f"{v:g}" of a non-negative whole number, as the number the text denotes
format_g(x) == ((x + scale_g(x) \div 2) \div scale_g(x)) * scale_g(x)

\* unwrap, lines 346-349: the text of a value, "%g" for a float and str(v) otherwise
v_str(key, v) ==
    IF key \notin FieldNames THEN v
    ELSE IF key \in ArrayFields /\ v /= NoArray /\ v.nd = 0
    THEN Scalar(format_g(v.v[1][1]))
    ELSE IF key \in FloatFields /\ v /= NoneInt THEN format_g(v)
    ELSE v

\* unwrap, lines 341-351: one environment of the result. The name, a text of parts
\* joined by "-", is kept as the sequence of its parts; a part after the first is the
\* pair of the key and the text of the value.
is_none(key, v) == (key \in MapNames \/ key \notin FieldNames) /\ v = None

RECURSIVE unwrap_set(_, _, _, _)
unwrap_set(e, keys, combo, n) ==
    IF n > Len(keys) THEN e
    ELSE unwrap_set(setattr(e, keys[n], combo[n], is_none(keys[n], combo[n])).env,
                    keys, combo, n + 1)

unwrap_one(e, keys, combo) ==
    LET name_parts == <<e.name>> \o [n \in 1..Len(keys) |-> <<keys[n], v_str(keys[n], combo[n])>>]
    IN  [unwrap_set(copy(e), keys, combo, 1) EXCEPT !.name = name_parts]

\* Environment.unwrap (lines 316-357). "k not in self" is hasattr (__getitem__). The
\* value of a key that is a method is the bound method, which __setattr__ cannot
\* index (value[0], line 631): TypeError at the first combination, if there is one
unwrap(e, keys) ==
    IF \E n \in 1..Len(keys) : ~hasattr(e, keys[n]) THEN Raise("KeyError")
    ELSE IF /\ \E n \in 1..Len(keys) : keys[n] \in MethodNames \ e.other
            /\ \A n \in 1..Len(keys) : Len(values_of(e, keys[n])) > 0
    THEN Raise("TypeError")
    ELSE LET combos == product([n \in 1..Len(keys) |-> values_of(e, keys[n])])
         IN  Ok([i \in 1..Len(combos) |-> unwrap_one(e, keys, combos[i])])

-----
(* models.py: Models (and main.py: ModelRegistry, whose new, list, get and  *)
(* select have the same bodies)                                             *)

\* the names registered in ms
names_of(ms) == {ms[i].name : i \in 1..Len(ms)}

\* mutant of new: the duplicate check is skipped
new_no_check(ms, name, exe, dim) ==
    [models |-> Append(ms, BellhopSimulator(name, exe, dim)),
     res |-> Ok(BellhopSimulator(name, exe, dim))]

\* Models.new(name, exe=, dim=)
new(ms, name, exe, dim) ==
    IF \E i \in 1..Len(ms) : name = ms[i].name
    THEN [models |-> ms, res |-> Raise("ValueError")]
    ELSE [models |-> Append(ms, BellhopSimulator(name, exe, dim)),
          res |-> Ok(BellhopSimulator(name, exe, dim))]

\* Models.init(): the two default adapters, registered through new; the first
\* new that raises ends init
init(ms) ==
    LET a == new(ms, name_2d, exe_2d, dim_2d)
    IN  IF ~a.res.ok THEN a
        ELSE new(a.models, name_3d, exe_3d, dim_3d)

\* the loop of Models.get, from index i
RECURSIVE get_from(_, _, _)
get_from(ms, i, name) ==
    IF i > Len(ms) THEN Raise("KeyError")
    ELSE IF ms[i].name = name THEN Ok(ms[i])
    ELSE get_from(ms, i + 1, name)

\* Models.get(name)
get(ms, name) == get_from(ms, 1, name)

\* mutant of list_from: the names come out in reverse registration order
RECURSIVE list_reversed(_, _, _, _, _, _)
list_reversed(ms, i, p, e, task, dim) ==
    IF i > Len(ms) THEN <<>>
    ELSE list_reversed(ms, i + 1, p, e, task, dim)
         \o (IF supports(ms[i], p, e, task, None, dim) THEN <<ms[i].name>> ELSE <<>>)

\* the loop of Models.list, from index i
RECURSIVE list_from(_, _, _, _, _, _)
list_from(ms, i, p, e, task, dim) ==
    IF i > Len(ms) THEN <<>>
    ELSE (IF supports(ms[i], p, e, task, None, dim) THEN <<ms[i].name>> ELSE <<>>)
         \o list_from(ms, i + 1, p, e, task, dim)

\* Models.list(env, task, dim): env.check() first when env is given
list(ms, p, e, task, dim) ==
    IF e = NoEnv THEN [env |-> e, res |-> Ok(list_from(ms, 1, p, e, task, dim))]
    ELSE LET c == check(e)
         IN  IF ~c.res.ok THEN c
             ELSE [env |-> c.env, res |-> Ok(list_from(ms, 1, p, c.env, task, dim))]

\* mutant of select_from: the last supporting adapter wins
RECURSIVE select_last(_, _, _, _, _)
select_last(ms, i, p, e, task) ==
    IF i > Len(ms) THEN Raise("ValueError")
    ELSE LET rest == select_last(ms, i + 1, p, e, task)
         IN  IF rest.ok THEN rest
             ELSE IF supports(ms[i], p, e, task, None, e._dimension) THEN Ok(ms[i])
             ELSE rest

\* the loop of Models.select, from index i
RECURSIVE select_from(_, _, _, _, _)
select_from(ms, i, p, e, task) ==
    IF i > Len(ms) THEN Raise("ValueError")
    ELSE IF supports(ms[i], p, e, task, None, e._dimension) THEN Ok(ms[i])
    ELSE select_from(ms, i + 1, p, e, task)

\* mutant of select: a named model is returned only when it supports the pair
select_checked(ms, p, e, task, model) ==
    IF model /= None
    THEN LET g == get(ms, model)
         IN  IF g.ok /\ ~supports(g.val, p, e, task, None, e._dimension)
             THEN Raise("ValueError") ELSE g
    ELSE select_from(ms, 1, p, e, task)

\* Models.select(env, task, model)
select(ms, p, e, task, model) ==
    IF model /= None THEN get(ms, model)
    ELSE select_from(ms, 1, p, e, task)

\* Models.reset() (models.py:66-69): the list is cleared
reset(ms) == [models |-> <<>>, res |-> Ok(None)]

\* ModelRegistry._initialize_defaults (main.py:47-50): it calls self.new_model,
\* which ModelRegistry does not define, so the call raises before any adapter is added
_initialize_defaults(ms) == [models |-> ms, res |-> Raise("AttributeError")]

\* ModelRegistry.reset() (main.py:78-81): clear, then _initialize_defaults
registry_reset(ms) == _initialize_defaults(reset(ms).models)

-----------------------------------------------------------------------------
(* The registry driven by its callers *)

\* adapter names the callers use
Names == {name_2d, name_3d, "custom"}

\* executable names: the two defaults
Exes == {exe_2d, exe_3d}

\* the (exe, dim) configurations callers register adapters with
Configs == {<<exe_2d, 2>>, <<exe_3d, 3>>}

\* the values callers assign to Environment.dimension
Dimensions == {two_d, two_half_d, three_d}

\* task arguments: unspecified, a known task and an unknown one
Tasks == {None, "arrivals", "foobar"}

\* the search paths: both executables installed, only the 2-D one, neither
Paths == {{exe_2d, exe_3d}, {exe_2d}, {}}

\* the most adapters the callers register
MaxModels == 3

\* no Adapter.run call is in progress
Idle ==
    [pc |-> "idle", m |-> [none |-> TRUE], env |-> NoEnv, task |-> None, debug |-> FALSE,
     fname_base |-> NoBase, base |-> NoBase, made |-> {}, spawned |-> FALSE,
     parsed |-> FALSE, returncode |-> 0, stdout |-> <<>>, res |-> [none |-> TRUE],
     steps |-> <<>>, stale |-> {}, wrote |-> {}, reads |-> {}]

\* neither thread is in a call
NoCalls == <<Idle, Idle>>

\* an empty directory
NoFiles == [f \in {} |-> "empty"]

\* no compute call is in progress
NoCompute ==
    [pc |-> "idle", envs |-> <<>>, models_ |-> <<>>, tasks |-> <<>>, debug |-> FALSE,
     fname_base |-> NoBase, i |-> 1, j |-> 1, k |-> 1, this_task |-> None,
     results |-> <<>>, checks |-> 0, selects |-> 0, runs |-> 0, stage |-> "none",
     res |-> [none |-> TRUE]]

InitRegistry ==
    /\ _models = init(<<>>).models
    /\ path \in Paths
    /\ env = Environment("env", two_d)
    /\ ret = [op |-> "import"]
    /\ comp = NoCompute
    /\ heap = NoHeap
    /\ calls = NoCalls
    /\ files = NoFiles
    /\ run = Idle

\* Models.new(name, exe=exe, dim=dim)
New(name, cfg) ==
    /\ Len(_models) < MaxModels
    /\ LET r == new(_models, name, cfg[1], cfg[2])
       IN  /\ _models' = r.models
           /\ ret' = [op |-> "new", name |-> name, exe |-> cfg[1], dim |-> cfg[2],
                      before |-> _models, res |-> r.res]
    /\ UNCHANGED <<path, env, runVars>>

\* Models.init() called again by the user
ModelsInit ==
    /\ LET r == init(_models)
       IN  /\ _models' = r.models
           /\ ret' = [op |-> "init", before |-> _models, res |-> r.res]
    /\ UNCHANGED <<path, env, runVars>>

\* Models.get(name)
Get(name) ==
    /\ ret' = [op |-> "get", name |-> name, before |-> _models, res |-> get(_models, name)]
    /\ UNCHANGED <<_models, path, env, runVars>>

\* Models.list(env, task, dim), with or without the environment
List(withEnv, task, dim) ==
    /\ LET r == list(_models, path, IF withEnv THEN env ELSE NoEnv, task, dim)
       IN  /\ env' = IF withEnv THEN r.env ELSE env
           /\ ret' = [op |-> "list", withEnv |-> withEnv, task |-> task, dim |-> dim,
                      before |-> _models, res |-> r.res]
    /\ UNCHANGED <<_models, path, runVars>>

\* Models.select(env, task, model)
Select(task, model) ==
    /\ ret' = [op |-> "select", task |-> task, model |-> model,
               before |-> _models, res |-> select(_models, path, env, task, model)]
    /\ UNCHANGED <<_models, path, env, runVars>>

\* Models.reset()
Reset ==
    /\ LET r == reset(_models)
       IN  /\ _models' = r.models
           /\ ret' = [op |-> "reset", before |-> _models, res |-> r.res]
    /\ UNCHANGED <<path, env, runVars>>

\* ModelRegistry.reset() of main.py
RegistryReset ==
    /\ LET r == registry_reset(_models)
       IN  /\ _models' = r.models
           /\ ret' = [op |-> "registry_reset", before |-> _models, res |-> r.res]
    /\ UNCHANGED <<path, env, runVars>>

\* env.dimension = d
SetDimension(d) ==
    /\ env' = [env EXCEPT !.dimension = d, !.checked = FALSE]
    /\ ret' = [op |-> "setattr"]
    /\ UNCHANGED <<_models, path, runVars>>

\* env._num_media = n
SetNumMedia(n) ==
    /\ env' = [env EXCEPT !._num_media = n, !.checked = FALSE]
    /\ ret' = [op |-> "setattr"]
    /\ UNCHANGED <<_models, path, runVars>>

\* env.check(); again says that the call before was a check() that succeeded, and
\* before is the environment that call left
Check ==
    /\ LET c == check(env)
           again == ret.op = "check" /\ ret.res.ok
       IN  /\ env' = c.env
           /\ ret' = [op |-> "check", res |-> c.res, again |-> again,
                      before |-> IF again THEN env ELSE NoEnv]
    /\ UNCHANGED <<_models, path, runVars>>

\* env[key] = value (or env.key = value); listed says that the value is in the
\* field's set of allowed values, changed that some field or attribute of env
\* differs after the assignment
SetAttr(key, value, isnone) ==
    /\ LET r == setattr(env, key, value, isnone)
       IN  /\ env' = r.env
           /\ ret' = [op |-> "setattr", key |-> key, isnone |-> isnone,
                      listed |-> key \in MapNames /\ value \in allowed_values(key),
                      res |-> r.res,
                      changed |-> [r.env EXCEPT !.checked = env.checked] /= env]
    /\ UNCHANGED <<_models, path, runVars>>

NextRegistry ==
    \/ \E name \in Names, cfg \in Configs : New(name, cfg)
    \/ ModelsInit
    \/ \E name \in Names : Get(name)
    \/ \E withEnv \in BOOLEAN, task \in Tasks, dim \in {NoneInt, 2, 3} : List(withEnv, task, dim)
    \/ \E task \in Tasks \ {None}, model \in Names \cup {None} : Select(task, model)
    \/ Reset
    \/ RegistryReset
    \/ \E d \in Dimensions : SetDimension(d)
    \/ \E n \in {1, 2} : SetNumMedia(n)
    \/ Check

Spec == InitRegistry /\ [][NextRegistry]_vars

-----------------------------------------------------------------------------
(* Properties of the registry *)

\* the registry a fresh import leaves: the 2-D adapter followed by the 3-D adapter
DefaultModels == <<BellhopSimulator(name_2d, exe_2d, dim_2d), BellhopSimulator(name_3d, exe_3d, dim_3d)>>

\* e is as a successful check() leaves it
IsChecked(e) == check(e).res.ok /\ check(e).env = e

\* the indices of the adapters of ms that support (e, task) at e's resolved dimension
Supporting(ms, e, task) ==
    {i \in 1..Len(ms) : supports(ms[i], path, e, task, None, e._dimension)}

\* the least element of a non-empty set of indices
Least(S) == CHOOSE i \in S : \A j \in S : i <= j

\* C1: select(env, task) with no model named returns the earliest-registered
\* adapter that supports (env, task) at env's resolved dimension, raises the "no
\* suitable model" error exactly when no registered adapter supports the pair, and
\* with the two defaults installed picks the 2-D adapter for a checked 2-D
\* environment and the 3-D adapter for a checked 3-D one.
C1_SelectFirstSupporting ==
    (ret.op = "select" /\ ret.model = None) =>
        LET S == Supporting(_models, env, ret.task)
        IN  /\ (S = {}) <=> (~ret.res.ok)
            /\ ~ret.res.ok => ret.res.err = "ValueError"
            /\ ret.res.ok => ret.res.val = _models[Least(S)]
            /\ (/\ _models = DefaultModels
                /\ path = {exe_2d, exe_3d}
                /\ ret.task \in taskmap_keys
                /\ IsChecked(env))
               => /\ ret.res.ok
                  /\ env.dimension = two_d => ret.res.val.name = name_2d
                  /\ env.dimension = three_d => ret.res.val.name = name_3d

\* C1 witness: two registered adapters support the pair and select returned the
\* earlier one, which is not the first of the registry.
C1_Witness ==
    /\ ret.op = "select" /\ ret.model = None /\ ret.res.ok
    /\ Cardinality(Supporting(_models, env, ret.task)) = 2
    /\ ret.res.val = _models[2]

\* C2: get(name) and select(env, task, model=name) return the registered adapter
\* called name whether or not it supports (env, task), raise KeyError when no
\* adapter has that name, and leave the registry as it was.
C2_NamedLookup ==
    (ret.op = "get" \/ (ret.op = "select" /\ ret.model /= None)) =>
        LET name == IF ret.op = "get" THEN ret.name ELSE ret.model
        IN  /\ _models = ret.before
            /\ (name \in names_of(_models))
               => /\ ret.res.ok
                  /\ ret.res.val.name = name
                  /\ \E i \in 1..Len(_models) : _models[i] = ret.res.val
            /\ (name \notin names_of(_models))
               => /\ ~ret.res.ok
                  /\ ret.res.err = "KeyError"

\* C2 witness: select returned the named adapter although it does not support
\* the environment and task.
C2_Witness ==
    /\ ret.op = "select" /\ ret.model /= None /\ ret.res.ok
    /\ ret.res.val.name = ret.model
    /\ ~supports(ret.res.val, path, env, ret.task, None, env._dimension)

\* C4: no two registered adapters share a name; new(name) with a registered name
\* raises and leaves contents and order unchanged, and new(name) with an unused
\* name appends exactly that one adapter at the end.
C4_UniqueNames ==
    /\ \A i, j \in 1..Len(_models) : _models[i].name = _models[j].name => i = j
    /\ ret.op = "new" =>
          IF ret.name \in names_of(ret.before)
          THEN ~ret.res.ok /\ ret.res.err = "ValueError" /\ _models = ret.before
          ELSE /\ ret.res.ok
               /\ _models = Append(ret.before, BellhopSimulator(ret.name, ret.exe, ret.dim))
               /\ ret.res.val = _models[Len(_models)]

\* C4 witness: a new with an already registered name was rejected.
C4_Witness ==
    /\ ret.op = "new" /\ ~ret.res.ok
    /\ ret.name \in names_of(_models)
    /\ Len(_models) = 2

\* the position of name in ms
IndexOf(ms, name) == CHOOSE i \in 1..Len(ms) : ms[i].name = name

C6_ResetRestoresDefaults ==
    ret.op \in {"reset", "registry_reset"} => _models = DefaultModels

-----------------------------------------------------------------------------
(* BellhopSimulator.supports called directly on the default adapters *)

\* exe overrides: none, the empty string, the 3-D executable
ExeArgs == {None, "", exe_3d}

\* dim overrides: none, 0, 2, 3
DimArgs == {NoneInt, 0, 2, 3}

\* m.supports(env, task, exe, dim) for the i-th registered adapter
Supports(i, withEnv, task, exe, dim) ==
    /\ ret' = [op |-> "supports", m |-> _models[i], withEnv |-> withEnv, task |-> task,
               exe |-> exe, dim |-> dim,
               res |-> Ok(supports(_models[i], path, IF withEnv THEN env ELSE NoEnv,
                                   task, exe, dim))]
    /\ UNCHANGED <<_models, path, env, runVars>>

NextSupports ==
    \/ \E i \in 1..Len(_models), withEnv \in BOOLEAN, task \in Tasks,
          exe \in ExeArgs, dim \in DimArgs : Supports(i, withEnv, task, exe, dim)
    \/ \E d \in Dimensions : SetDimension(d)
    \/ Check

SpecSupports == InitRegistry /\ [][NextSupports]_vars

\* the executable name supports looks up: the override when one is given and is
\* not empty, else the adapter's own
LookedUpExe == IF ret.exe \notin {None, ""} THEN ret.exe ELSE ret.m.exe

\* C3 as stated: supports is true iff the executable resolves, the task is
\* unspecified or in the task table, and the required dimensionality is unspecified
\* or the adapter's, the required dimensionality being env's resolved dimension
\* when env is given and the dim argument only when env is not given.
C3_EnvDimensionFirst ==
    ret.op = "supports" =>
        LET req == IF ret.withEnv THEN env._dimension ELSE ret.dim
        IN  ret.res.val <=> /\ LookedUpExe \in path
                            /\ ret.task = None \/ ret.task \in taskmap_keys
                            /\ req = NoneInt \/ req = ret.m.dim

\* C3 amended: as above, but the required dimensionality is the dim argument when
\* one is given and is not 0, else env's resolved dimension when env is given,
\* else the dim argument as it stands.
C3_ExplicitDimFirst ==
    ret.op = "supports" =>
        LET req == IF ret.dim \notin {NoneInt, 0} THEN ret.dim
                   ELSE IF ret.withEnv THEN env._dimension
                   ELSE ret.dim
        IN  ret.res.val <=> /\ LookedUpExe \in path
                            /\ ret.task = None \/ ret.task \in taskmap_keys
                            /\ req = NoneInt \/ req = ret.m.dim

\* C3 witness: supports is true for an environment of another dimension than the
\* adapter's, because the dim argument names the adapter's dimension.
C3_Witness ==
    /\ ret.op = "supports" /\ ret.withEnv /\ ret.res.val
    /\ ret.dim = ret.m.dim
    /\ env._dimension /= ret.m.dim

-----------------------------------------------------------------------------
(* bellhop.py: BellhopSimulator.run and its helpers, on a file system fs that *)
(* maps <<base, ext>> to the file's content                                  *)

\* BellhopSimulator.taskmap[task]: (task flag, parser, output extension)
taskmap(task) ==
    CASE task = "arrivals"     -> [flag |-> "A", load |-> "read_arrivals", ext |-> ext_arr]
      [] task = "eigenrays"    -> [flag |-> "E", load |-> "read_rays", ext |-> ext_ray]
      [] task = "rays"         -> [flag |-> "R", load |-> "read_rays", ext |-> ext_ray]
      [] task = "coherent"     -> [flag |-> "C", load |-> "read_shd", ext |-> ext_shd]
      [] task = "incoherent"   -> [flag |-> "I", load |-> "read_shd", ext |-> ext_shd]
      [] task = "semicoherent" -> [flag |-> "S", load |-> "read_shd", ext |-> ext_shd]

\* fs without the files in gone
Without(fs, gone) == [f \in DOMAIN fs \ gone |-> fs[f]]

\* fs with file f holding content c (created, or overwritten)
WithFile(fs, f, c) == [g \in DOMAIN fs \cup {f} |-> IF g = f THEN c ELSE fs[g]]

\* BellhopSimulator._unlink(f): delete the file only if it exists
_unlink(fs, f) == Without(fs, {f})

\* mutant of _rm_files: the env file is always kept
_rm_files_keep_env(fs, base, not_env) ==
    Without(fs, {<<base, x>> : x \in all_ext \ {ext_env}})

\* BellhopSimulator._rm_files(fname_base, not_env)
_rm_files(fs, base, not_env) ==
    LET exts == IF not_env THEN all_ext \ {ext_env} ELSE all_ext
    IN  Without(fs, {<<base, x>> : x \in exts})

\* mutant of _prepare_env_file: the other files at the base name are left
_prepare_env_file_keep(fs, base) == WithFile(fs, <<base, ext_env>>, "opened")

\* BellhopSimulator._prepare_env_file: the env file is opened for writing, created
\* or truncated (base is fname_base, or the name mkstemp made), and every other
\* known file at the base name is deleted
_prepare_env_file(fs, base) ==
    _rm_files(WithFile(fs, <<base, ext_env>>, "opened"), base, TRUE)

\* the auxiliary files of Environment.write, in the order of its if statements
\* (environment.py:393-404): the condition, the extension, and whether the data to
\* put in the file is there (a coefficient table that is None has no .shape)
write_aux_steps(e) ==
    << [on |-> e.surface_boundary_condition = from_file, ext |-> ext_trc,
        data |-> e.surface_reflection_coefficient /= NoArray],
       [on |-> e.surface /= NoArray, ext |-> ext_ati, data |-> TRUE],
       [on |-> e.soundspeed_interp = quadrilateral, ext |-> ext_ssp, data |-> TRUE],
       [on |-> np_size(e.depth) > 1, ext |-> ext_bty, data |-> TRUE],
       [on |-> e.bottom_boundary_condition = from_file, ext |-> ext_brc,
        data |-> e.bottom_reflection_coefficient /= NoArray],
       [on |-> e.source_directionality /= NoArray, ext |-> ext_sbp, data |-> TRUE] >>

\* the auxiliary files written from step i on: open(filename, 'wt') creates the file
\* before its data is read, so a step without data leaves an empty file and raises
RECURSIVE write_aux(_, _, _, _)
write_aux(steps, i, fs, base) ==
    IF i > Len(steps) THEN [files |-> fs, res |-> Ok(None)]
    ELSE IF ~steps[i].on THEN write_aux(steps, i + 1, fs, base)
    ELSE IF ~steps[i].data
         THEN [files |-> WithFile(fs, <<base, steps[i].ext>>, "empty"),
               res |-> Raise("AttributeError")]
         ELSE write_aux(steps, i + 1, WithFile(fs, <<base, steps[i].ext>>, "written"), base)

\* _Maps.surface_boundary_condition_rev and _Maps.bottom_boundary_condition_rev: the
\* code of a boundary condition in the options of the env text
boundary_condition_rev(bc) ==
    IF bc = vacuum THEN "V"
    ELSE IF bc = acousto_elastic THEN "A"
    ELSE IF bc = from_file THEN "F"
    ELSE "R"

\* _Maps._altimetry_rev and _Maps._bathymetry_rev: the code of the flag of a boundary
\* that is flat or read from its file
boundary_file_rev(flag) == IF flag = from_file THEN "~" ELSE "_"

\* the options of the env text that name a file: the top options of
\* _write_env_surface_depth (lines 415-424) and the bottom options of
\* _write_env_bottom (lines 476-478)
env_text(e, taskcode) ==
    [name |-> e.name, taskcode |-> taskcode,
     topopt |-> [bc |-> boundary_condition_rev(e.surface_boundary_condition),
                 alti |-> boundary_file_rev(e._altimetry)],
     botopt |-> [bc |-> boundary_condition_rev(e.bottom_boundary_condition),
                 bathy |-> boundary_file_rev(e._bathymetry)]]

\* Environment.write(taskcode, fh, fname_base): the env text, then the auxiliary files
write(e, taskcode, fs, base) ==
    write_aux(write_aux_steps(e), 1, WithFile(fs, <<base, ext_env>>, env_text(e, taskcode)),
              base)

\* a line of the print log: its text without surrounding white space and whether
\* it contains '*** FATAL ERROR ***'
blank_line == [text |-> "", fatal |-> FALSE]

text_line == [text |-> "text", fatal |-> FALSE]

fatal_line == [text |-> "*** FATAL ERROR ***", fatal |-> TRUE]

\* mutant of check_error_loop: the marker line itself is part of the excerpt
RECURSIVE check_error_loop_marker(_, _, _, _)
check_error_loop_marker(lines, i, fatal, err) ==
    IF i > Len(lines) THEN err
    ELSE LET f == fatal \/ lines[i].fatal
         IN  check_error_loop_marker(lines, i + 1, f,
                 IF f /\ lines[i].text /= "" THEN Append(err, lines[i].text) ELSE err)

\* the loop of _check_error over the lines of the print log (bellhop.py:167-171)
RECURSIVE check_error_loop(_, _, _, _)
check_error_loop(lines, i, fatal, err) ==
    IF i > Len(lines) THEN err
    ELSE check_error_loop(lines, i + 1, fatal \/ lines[i].fatal,
             IF fatal /\ lines[i].text /= "" THEN Append(err, lines[i].text) ELSE err)

\* BellhopSimulator._check_error(fname_base): the '[FATAL] ' lines, or None
_check_error(fs, base) ==
    LET err == IF <<base, ext_prt>> \in DOMAIN fs
               THEN check_error_loop(fs[<<base, ext_prt>>], 1, FALSE, <<>>)
               ELSE <<>>
    IN  IF err /= <<>> THEN [lines |-> err] ELSE NoText

\* str.strip() of a text given as its characters
RECURSIVE lstrip(_)
lstrip(t) == IF t /= <<>> /\ Head(t) = " " THEN lstrip(Tail(t)) ELSE t

RECURSIVE rstrip(_)
rstrip(t) == IF t /= <<>> /\ t[Len(t)] = " " THEN rstrip(SubSeq(t, 1, Len(t) - 1)) ELSE t

strip(t) == rstrip(lstrip(t))

\* the RuntimeError of _run_exe (bellhop.py:151-158)
RuntimeError(m, base, returncode, stdout, fs) ==
    [ok |-> FALSE, err |-> "RuntimeError", returncode |-> returncode,
     command |-> <<m.exe, base>>, output |-> strip(stdout), prt |-> _check_error(fs, base)]

-----------------------------------------------------------------------------
(* One Adapter.run call at a time, step by step *)

\* the most temporary base names mkstemp has to hand out
MaxTemp == 1

\* the most lines the executable writes to its print log
MaxPrtLines == 2

\* the base name a caller supplies
OutBase == <<"out", 0>>

\* the base names mkstemp can make
TempBases == {<<"tmp", i>> : i \in 1..MaxTemp}

\* the print logs the executable can write
PrtLogs == UNION {[1..n -> {blank_line, text_line, fatal_line}] : n \in 0..MaxPrtLines}

\* what the executable prints: nothing, or a word with white space around it
Stdouts == {<<>>, <<" ", "e", " ">>}

\* the environments run is called with: the default one, one with a surface profile,
\* one whose bottom boundary condition is from-file with no coefficient table, and
\* one with a bottom coefficient table
RunEnvs ==
    LET d == Environment("env", two_d)
        a == [nd |-> 2, v |-> <<<<0, 0>>, <<1000, 1>>>>]
    IN  { d,
          [d EXCEPT !.surface = a],
          [d EXCEPT !.bottom_boundary_condition = from_file],
          [d EXCEPT !.bottom_boundary_condition = from_file,
                    !.bottom_reflection_coefficient = a] }

\* the files left on disk before the first call
InitialFiles ==
    { NoFiles,
      [f \in {<<OutBase, ext_shd>>, <<OutBase, ext_prt>>} |->
          IF f[2] = ext_prt THEN <<fatal_line, text_line>> ELSE "stale"],
      [f \in {<<t, ext_arr>> : t \in TempBases} |-> "stale"] }

InitRun ==
    /\ _models = init(<<>>).models
    /\ path \in Paths
    /\ env \in RunEnvs
    /\ ret = [op |-> "import"]
    /\ comp = NoCompute
    /\ heap = NoHeap
    /\ calls = NoCalls
    /\ files \in InitialFiles
    /\ run = Idle

\* m.run(e, task, debug, fname_base) is entered: the task is looked up (line 72).
\* steps lists the steps of run taken so far, stale the extensions of the files found
\* at the base name, wrote the extensions of the files the executable wrote, reads
\* the files that were read
run_enter(m, e, task, debug, fname_base) ==
    IF task \in taskmap_keys
    THEN [Idle EXCEPT !.pc = "prepare", !.m = m, !.env = e, !.task = task,
                      !.debug = debug, !.fname_base = fname_base,
                      !.steps = <<"task">>]
    ELSE [Idle EXCEPT !.pc = "raised", !.m = m, !.env = e, !.task = task,
                      !.debug = debug, !.fname_base = fname_base,
                      !.steps = <<"task">>, !.res = Raise("KeyError")]

\* mutant of mkstemp: any name
mkstemp_any(fs, bases) == bases

\* the base names mkstemp can return: those whose env file does not exist
mkstemp(fs, bases) == {b \in bases : <<b, ext_env>> \notin DOMAIN fs}

\* line 74: _prepare_env_file on base b, which is fname_base or the name mkstemp made
run_prepare(r, fs, b) ==
    [run |-> [r EXCEPT !.pc = "write", !.base = b, !.made = {ext_env},
                       !.stale = {x \in all_ext : <<b, x>> \in DOMAIN fs},
                       !.steps = Append(r.steps, "prepare")],
     files |-> _prepare_env_file(fs, b)]

\* lines 75-76: env.write(task_flag, fh, fname_base), then the file is closed
run_write(r, fs) ==
    LET w == write(r.env, taskmap(r.task).flag, fs, r.base)
    IN  [run |-> [r EXCEPT !.pc = IF w.res.ok THEN "run_exe" ELSE "raised",
                           !.made = {x \in all_ext : <<r.base, x>> \in DOMAIN w.files},
                           !.steps = Append(r.steps, "write"),
                           !.res = w.res],
         files |-> w.files]

\* _run_exe, lines 139-146: the executable is looked up; FileNotFoundError when it
\* is not on the search path, else the subprocess is spawned
_run_exe_start(r, p) ==
    IF ~which(p, r.m.exe)
    THEN [r EXCEPT !.pc = "raised", !.res = Raise("FileNotFoundError")]
    ELSE [r EXCEPT !.pc = "running", !.spawned = TRUE, !.steps = Append(r.steps, "exec")]

\* the executable runs and exits: it may write a print log and the task's output file
exe_exit(r, fs, returncode, stdout, haslog, log, output) ==
    LET f1 == IF haslog THEN WithFile(fs, <<r.base, ext_prt>>, log) ELSE fs
        f2 == IF output THEN WithFile(f1, <<r.base, taskmap(r.task).ext>>, "output")
              ELSE f1
        exts == (IF haslog THEN {ext_prt} ELSE {})
               \cup (IF output THEN {taskmap(r.task).ext} ELSE {})
    IN  [run |-> [r EXCEPT !.pc = "exited", !.returncode = returncode,
                           !.stdout = stdout,
                           !.made = r.made \cup exts, !.wrote = exts],
         files |-> f2]

\* mutant of run_exe_check: the return code is not looked at
run_exe_check_any(r, fs) == [r EXCEPT !.pc = "load"]

\* _run_exe, lines 151-158: a nonzero return code raises RuntimeError, with what
\* _check_error reads from the print log
run_exe_check(r, fs) ==
    IF r.returncode /= 0
    THEN [r EXCEPT !.pc = "raised",
                   !.reads = r.reads \cup {<<r.base, ext_prt>>},
                   !.res = RuntimeError(r.m, r.base, r.returncode, r.stdout, fs)]
    ELSE [r EXCEPT !.pc = "load"]

\* line 79: load_task_data(fname_base + task_ext); the reader raises when the file
\* is missing or cannot be parsed
run_load(r, fs, readable) ==
    LET f == <<r.base, taskmap(r.task).ext>>
        r1 == [r EXCEPT !.parsed = TRUE, !.reads = r.reads \cup {f},
                        !.steps = Append(r.steps, "parse")]
    IN  IF f \in DOMAIN fs /\ readable
        THEN [r1 EXCEPT !.pc = "cleanup",
                        !.res = Ok([load |-> taskmap(r.task).load, content |-> fs[f]])]
        ELSE [r1 EXCEPT !.pc = "raised", !.res = Raise("ParseError")]

\* lines 81-86: the working files are deleted unless debug is set; run returns
run_cleanup(r, fs) ==
    [run |-> [r EXCEPT !.pc = "returned", !.steps = Append(r.steps, "cleanup")],
     files |-> IF r.debug THEN fs ELSE _rm_files(fs, r.base, FALSE)]

\* a caller calls m.run(env, task, debug, fname_base)
RunCall(m, task, debug, fname_base) ==
    /\ run.pc = "idle"
    /\ fname_base = NoBase => mkstemp(files, TempBases) /= {}
    /\ run' = run_enter(m, env, task, debug, fname_base)
    /\ UNCHANGED <<regVars, files>>

\* line 74
PrepareEnvFile ==
    /\ run.pc = "prepare"
    /\ \E b \in IF run.fname_base /= NoBase THEN {run.fname_base}
                ELSE mkstemp(files, TempBases) :
        /\ files' = run_prepare(run, files, b).files
        /\ run' = run_prepare(run, files, b).run
    /\ UNCHANGED regVars

\* lines 75-76
WriteEnv ==
    /\ run.pc = "write"
    /\ files' = run_write(run, files).files
    /\ run' = run_write(run, files).run
    /\ UNCHANGED regVars

\* line 78: self._run_exe(fname_base) starts
RunExe ==
    /\ run.pc = "run_exe"
    /\ run' = _run_exe_start(run, path)
    /\ UNCHANGED <<regVars, files>>

\* the subprocess exits
ExeExit(returncode, stdout, haslog, log, output) ==
    /\ run.pc = "running"
    /\ files' = exe_exit(run, files, returncode, stdout, haslog, log, output).files
    /\ run' = exe_exit(run, files, returncode, stdout, haslog, log, output).run
    /\ UNCHANGED regVars

\* _run_exe, lines 151-158
RunExeCheck ==
    /\ run.pc = "exited"
    /\ run' = run_exe_check(run, files)
    /\ UNCHANGED <<regVars, files>>

\* line 79
LoadTaskData(readable) ==
    /\ run.pc = "load"
    /\ run' = run_load(run, files, readable)
    /\ UNCHANGED <<regVars, files>>

\* lines 81-86
Cleanup ==
    /\ run.pc = "cleanup"
    /\ files' = run_cleanup(run, files).files
    /\ run' = run_cleanup(run, files).run
    /\ UNCHANGED regVars

\* the caller has the result or the exception; the next call can start
RunEnds ==
    /\ run.pc \in {"returned", "raised"}
    /\ run' = Idle
    /\ UNCHANGED <<regVars, files>>

NextRun ==
    \/ \E i \in 1..Len(_models), task \in {"arrivals", "coherent", "foobar"},
          debug \in BOOLEAN, fname_base \in {NoBase, OutBase} :
            RunCall(_models[i], task, debug, fname_base)
    \/ PrepareEnvFile
    \/ WriteEnv
    \/ RunExe
    \/ \E returncode \in {0, 1}, haslog \in BOOLEAN, output \in BOOLEAN :
            ExeExit(returncode, <<>>, haslog, <<fatal_line, text_line>>, output)
    \/ RunExeCheck
    \/ \E readable \in BOOLEAN : LoadTaskData(readable)
    \/ Cleanup
    \/ RunEnds

SpecRun == InitRun /\ [][NextRun]_vars

\* a single run call, with every print log and output the executable can produce
InitRunError ==
    /\ InitRun
    /\ path = {exe_2d, exe_3d}
    /\ env = Environment("env", two_d)

NextRunError ==
    \/ \E i \in 1..Len(_models), debug \in BOOLEAN, fname_base \in {NoBase, OutBase} :
            RunCall(_models[i], "arrivals", debug, fname_base)
    \/ PrepareEnvFile
    \/ WriteEnv
    \/ RunExe
    \/ \E returncode \in {0, 1, 2}, stdout \in Stdouts, haslog \in BOOLEAN, log \in PrtLogs,
          output \in BOOLEAN : ExeExit(returncode, stdout, haslog, log, output)
    \/ RunExeCheck
    \/ \E readable \in BOOLEAN : LoadTaskData(readable)
    \/ Cleanup

SpecRunError == InitRunError /\ [][NextRunError]_vars

-----------------------------------------------------------------------------
(* Properties of Adapter.run *)

\* the run call has raised because its executable is not on the search path
MissingExeRaised == run.pc = "raised" /\ run.res.err = "FileNotFoundError"

\* the extensions of the files the executable writes: the print log and the outputs
output_ext == {ext_prt, ext_arr, ext_ray, ext_shd}

\* C7 as stated: run on an adapter whose executable is not on the search path raises
\* before any subprocess is spawned, and at that moment no working file, the env
\* input file included, exists at the base name.
C7_NoFileOnMissingExe ==
    MissingExeRaised =>
        /\ ~run.spawned
        /\ \A x \in all_ext : <<run.base, x>> \notin DOMAIN files

\* C7, what run does instead: it raises before any subprocess is spawned and before
\* the parser is called, but after the env input file was written: at that moment the
\* env file holds the environment's text, and no print log or output file exists at
\* the base name.
C7_MissingExeRaisesAfterWrite ==
    MissingExeRaised =>
        /\ ~run.spawned
        /\ ~run.parsed
        /\ <<run.base, ext_env>> \in DOMAIN files
        /\ files[<<run.base, ext_env>>] = env_text(run.env, taskmap(run.task).flag)
        /\ \A x \in output_ext : <<run.base, x>> \notin DOMAIN files

\* C7, the case: the call raised for a missing executable on a temporary base name,
\* whose env file is on disk.
C7_Witness ==
    /\ MissingExeRaised
    /\ run.fname_base = NoBase
    /\ <<run.base, ext_env>> \in DOMAIN files

\* C8: when run returns with debug unset no file with a known extension exists at
\* the base name, temporary or caller-supplied; when it returns with debug set every
\* file that run or the executable made is still there.
C8_CleanupUnlessDebug ==
    run.pc = "returned" =>
        /\ ~run.debug => \A x \in all_ext : <<run.base, x>> \notin DOMAIN files
        /\ run.debug => \A x \in run.made : <<run.base, x>> \in DOMAIN files

\* C8 witness: a run without debug on a temporary base name returned after writing
\* an auxiliary file and parsing its output.
C8_Witness ==
    /\ run.pc = "returned" /\ ~run.debug
    /\ run.fname_base = NoBase
    /\ {ext_env, ext_ati, ext_arr} \subseteq run.made

\* a line with text on it
NonBlank(l) == l.text /= ""

\* the excerpt the print log at base calls for: the texts of the lines with text that
\* follow the first line holding the fatal marker; None without a log, without a
\* marker or without such lines
ExpectedExcerpt(fs, base) ==
    IF <<base, ext_prt>> \notin DOMAIN fs THEN NoText
    ELSE LET lines == fs[<<base, ext_prt>>]
             marks == {i \in 1..Len(lines) : lines[i].fatal}
         IN  IF marks = {} THEN NoText
             ELSE LET sel == SelectSeq(SubSeq(lines, Least(marks) + 1, Len(lines)), NonBlank)
                  IN  IF sel = <<>> THEN NoText
                      ELSE [lines |-> [i \in 1..Len(sel) |-> sel[i].text]]

\* t is s without the spaces at its ends
IsStripped(t, s) ==
    /\ t = <<>> \/ (t[1] /= " " /\ t[Len(t)] /= " ")
    /\ \E a, b \in 0..Len(s) :
        /\ a + Len(t) + b = Len(s)
        /\ \A i \in 1..Len(s) :
             IF i <= a \/ i > a + Len(t) THEN s[i] = " " ELSE s[i] = t[i - a]

\* C9: when the executable exits with a nonzero status run raises an execution
\* error carrying the exit code, the command line, the captured output and the
\* print-log excerpt (None without a log file or a fatal marker), and the parser
\* is never called in that run.
C9_NonzeroExitRaises ==
    /\ run.pc \in {"load", "cleanup", "returned"} => run.returncode = 0
    /\ run.parsed => run.returncode = 0
    /\ (run.pc = "raised" /\ run.returncode /= 0) =>
          /\ run.res.err = "RuntimeError"
          /\ run.res.returncode = run.returncode
          /\ run.res.command = <<run.m.exe, run.base>>
          /\ IsStripped(run.res.output, run.stdout)
          /\ run.res.prt = ExpectedExcerpt(files, run.base)
          /\ (<<run.base, ext_prt>> \notin DOMAIN files) => run.res.prt = NoText
          /\ ~run.parsed

\* C9 witness: the execution error carries an excerpt of the print log and output
\* that had white space around it.
C9_Witness ==
    /\ run.pc = "raised" /\ run.returncode = 2
    /\ run.res.prt = [lines |-> <<"text">>]
    /\ run.stdout /= run.res.output
    /\ ~run.parsed

-----------------------------------------------------------------------------
(* Two threads that call Adapter.run, their steps interleaved *)

\* the base names mkstemp can make for two threads
TempBases2 == {<<"tmp", i>> : i \in 1..(MaxTemp + 1)}

InitRun2 ==
    /\ _models = init(<<>>).models
    /\ path = {exe_2d, exe_3d}
    /\ env = Environment("env", two_d)
    /\ ret = [op |-> "import"]
    /\ comp = NoCompute
    /\ heap = NoHeap
    /\ files \in InitialFiles
    /\ run = Idle
    /\ calls = NoCalls

\* thread c calls run(env, "arrivals", debug, fname_base) on the 2-D adapter; each
\* thread makes one call
RunCall2(c) ==
    /\ calls[c].pc = "idle"
    /\ \E debug \in BOOLEAN, fname_base \in {NoBase, OutBase} :
          calls' = [calls EXCEPT ![c] = run_enter(_models[1], env, "arrivals", debug,
                                                  fname_base)]
    /\ UNCHANGED <<_models, path, env, ret, files, run, comp, heap>>

PrepareEnvFile2(c) ==
    /\ calls[c].pc = "prepare"
    /\ \E b \in IF calls[c].fname_base /= NoBase THEN {calls[c].fname_base}
                ELSE mkstemp(files, TempBases2) :
        /\ files' = run_prepare(calls[c], files, b).files
        /\ calls' = [calls EXCEPT ![c] = run_prepare(calls[c], files, b).run]
    /\ UNCHANGED <<_models, path, env, ret, run, comp, heap>>

WriteEnv2(c) ==
    /\ calls[c].pc = "write"
    /\ files' = run_write(calls[c], files).files
    /\ calls' = [calls EXCEPT ![c] = run_write(calls[c], files).run]
    /\ UNCHANGED <<_models, path, env, ret, run, comp, heap>>

RunExe2(c) ==
    /\ calls[c].pc = "run_exe"
    /\ calls' = [calls EXCEPT ![c] = _run_exe_start(calls[c], path)]
    /\ UNCHANGED <<_models, path, env, ret, files, run, comp, heap>>

ExeExit2(c) ==
    /\ calls[c].pc = "running"
    /\ \E returncode \in {0, 1}, output \in BOOLEAN :
        LET x == exe_exit(calls[c], files, returncode, <<>>, returncode = 1,
                          <<fatal_line, text_line>>, output)
        IN  /\ files' = x.files
            /\ calls' = [calls EXCEPT ![c] = x.run]
    /\ UNCHANGED <<_models, path, env, ret, run, comp, heap>>

RunExeCheck2(c) ==
    /\ calls[c].pc = "exited"
    /\ calls' = [calls EXCEPT ![c] = run_exe_check(calls[c], files)]
    /\ UNCHANGED <<_models, path, env, ret, files, run, comp, heap>>

LoadTaskData2(c) ==
    /\ calls[c].pc = "load"
    /\ calls' = [calls EXCEPT ![c] = run_load(calls[c], files, TRUE)]
    /\ UNCHANGED <<_models, path, env, ret, files, run, comp, heap>>

Cleanup2(c) ==
    /\ calls[c].pc = "cleanup"
    /\ files' = run_cleanup(calls[c], files).files
    /\ calls' = [calls EXCEPT ![c] = run_cleanup(calls[c], files).run]
    /\ UNCHANGED <<_models, path, env, ret, run, comp, heap>>

NextRun2 ==
    \E c \in 1..2 :
        \/ RunCall2(c)
        \/ PrepareEnvFile2(c)
        \/ WriteEnv2(c)
        \/ RunExe2(c)
        \/ ExeExit2(c)
        \/ RunExeCheck2(c)
        \/ LoadTaskData2(c)
        \/ Cleanup2(c)

SpecRun2 == InitRun2 /\ [][NextRun2]_vars

\* the call holds its base name: from _prepare_env_file until it returns or raises
Holds(r) == r.pc \in {"write", "run_exe", "running", "exited", "load", "cleanup"}

\* file f is the same before and after the step
SameFile(f) ==
    /\ (f \in DOMAIN files') = (f \in DOMAIN files)
    /\ f \in DOMAIN files => files'[f] = files[f]

\* C22: a step of one run call leaves every file at the base name of a concurrent
\* call with another base name as it is, and reads no file but at its own base name;
\* two concurrent calls without an explicit base name hold different base names.
C22_ConcurrentRunsIsolated ==
    /\ [](\A c \in 1..2 : \A f \in calls[c].reads : f[1] = calls[c].base)
    /\ [](\A c, d \in 1..2 :
            (c /= d /\ Holds(calls[c]) /\ Holds(calls[d])
             /\ calls[c].fname_base = NoBase /\ calls[d].fname_base = NoBase)
            => calls[c].base /= calls[d].base)
    /\ [][\A c, d \in 1..2 :
            (c /= d /\ calls'[c].pc /= calls[c].pc /\ Holds(calls[d])
             /\ calls'[c].base /= calls[d].base)
            => \A x \in all_ext : SameFile(<<calls[d].base, x>>)]_vars

\* C22: two calls without a base name in progress at once, one about to parse the
\* output of its executable and one whose executable runs; and a call that has read
\* the print log while another holds the caller's base name
C22_Witness ==
    /\ calls[1].pc = "load" /\ calls[2].pc = "running"
    /\ calls[1].fname_base = NoBase /\ calls[2].fname_base = NoBase
    /\ <<calls[1].base, ext_arr>> \in DOMAIN files

\* the steps of a run that returns, in their order
RunSteps == <<"task", "prepare", "write", "exec", "parse", "cleanup">>

\* C25: the steps of a run call are taken in the order task, base name, env file,
\* executable, parser, cleanup, and a call that returns has taken each once; while
\* the executable runs the env file holds the whole text, the parser is called only
\* after the executable has exited with status 0, and a file the executable wrote is
\* gone only after the parser was called.
C25_StepOrder ==
    /\ Len(run.steps) <= Len(RunSteps) /\ run.steps = SubSeq(RunSteps, 1, Len(run.steps))
    /\ run.pc = "returned" => run.steps = RunSteps
    /\ run.spawned =>
          (<<run.base, ext_env>> \in DOMAIN files =>
              files[<<run.base, ext_env>>] = env_text(run.env, taskmap(run.task).flag))
    /\ run.pc = "running" => <<run.base, ext_env>> \in DOMAIN files
    /\ run.parsed => (run.spawned /\ run.returncode = 0 /\ run.pc \notin {"running", "exited"})
    /\ \A x \in run.wrote : <<run.base, x>> \notin DOMAIN files => run.parsed

\* C25: a run returned after the executable wrote its output and the cleanup removed it
C25_Witness ==
    /\ run.pc = "returned" /\ ~run.debug
    /\ ext_arr \in run.wrote
    /\ <<run.base, ext_arr>> \notin DOMAIN files

\* C26: when run starts to write the env file no file but the env file exists at the
\* base name with a known extension, whatever was there before; and the output that
\* a run parses is one its own executable wrote.
C26_NoStaleFiles ==
    /\ run.pc = "write" =>
          \A x \in all_ext \ {ext_env} : <<run.base, x>> \notin DOMAIN files
    /\ (run.parsed /\ run.res.ok) => taskmap(run.task).ext \in run.wrote

\* C26: a run on the caller's base name found the output of an earlier run there, and
\* returned what its own executable wrote
C26_Witness ==
    /\ run.pc = "returned" /\ run.base = OutBase
    /\ run.task = "arrivals" /\ ext_arr \in run.stale
    /\ run.parsed /\ run.res.ok /\ ext_arr \in run.wrote

-----------------------------------------------------------------------------
(* main.py: compute *)

\* lines 182-184: a list argument is taken as it is, any other becomes a list of one
as_list(a) == IF a.islist THEN a.items ELSE <<a.item>>

\* a list argument
ListArg(items) == [islist |-> TRUE, items |-> items]

\* an argument that is not a list
ItemArg(item) == [islist |-> FALSE, item |-> item]

\* the loop headers of lines 185-190, from the header c.pc stands at until a loop
\* body starts, the debug line of the model loop raises or the outer loop ends
RECURSIVE loop_headers(_)
loop_headers(c) ==
    IF c.pc = "for_env"
    THEN IF c.i > Len(c.envs) THEN [c EXCEPT !.pc = "after"]
         ELSE loop_headers([c EXCEPT !.pc = "for_model", !.j = 1])
    ELSE IF c.pc = "for_model"
    THEN IF c.j > Len(c.models_)
         THEN loop_headers([c EXCEPT !.pc = "for_env", !.i = c.i + 1])
         ELSE IF c.debug /\ c.models_[c.j] /= None
         THEN [c EXCEPT !.pc = "raised", !.stage = "debug",
                        !.res = Raise("AttributeError")]
         ELSE loop_headers([c EXCEPT !.pc = "for_task", !.k = 1])
    ELSE IF c.k > Len(c.tasks)
         THEN loop_headers([c EXCEPT !.pc = "for_model", !.j = c.j + 1])
         ELSE [c EXCEPT !.pc = "body"]

\* mutant of resolve_task: the environment's own task wins over the task given
resolve_task_env_first(task, e) == IF TruthyStr(e.task) THEN e.task ELSE task

\* line 193: this_task or this_env.get('task')
resolve_task(task, e) == IF TruthyStr(task) THEN task ELSE e.task

\* mutant of fail: the failed combination is skipped and the loops go on
fail_skip(c, stage, e) == loop_headers([c EXCEPT !.pc = "for_task", !.k = c.k + 1])

\* an exception raised at a stage of the loop body leaves compute: nothing in
\* lines 185-202 catches it
fail(c, stage, e) == [c EXCEPT !.pc = "raised", !.stage = stage, !.res = e]

\* mutant of index_df: the rows are keyed from 1
index_df_from_one(results) ==
    [n \in 1..Len(results) |->
        [i |-> n, name |-> results[n].name, model |-> results[n].model,
         task |-> results[n].task]]

\* mutant of append: the record is put in front of the list
prepend(results, r) == <<r>> \o results

\* line 197: results.append(r)
append(results, r) == Append(results, r)

\* lines 204-213: the index table, one row per record
index_df(results) ==
    [n \in 1..Len(results) |->
        [i |-> n - 1, name |-> results[n].name, model |-> results[n].model,
         task |-> results[n].task]]

\* the bounds of a compute call: the length of a list argument and the number of
\* combinations of one call
MaxList == 2

MaxRuns == 8

\* the environments, model selectors and tasks compute is called with
CompEnvs ==
    { [Environment("a", two_d) EXCEPT !.task = "eigenrays"],
      [Environment("b", three_d) EXCEPT !.task = "rays"],
      Environment("c", two_d),
      [Environment("d", two_d) EXCEPT !.task = "arrivals", !._num_media = 2] }

CompModels == {None, name_3d}

CompTasks == {None, "arrivals"}

\* the lists of at most MaxList elements of S
Lists(S) == UNION { [1..n -> S] : n \in 0..MaxList }

\* the arguments over S: a single element or a list
Args(S) == { ItemArg(x) : x \in S } \cup { ListArg(l) : l \in Lists(S) }

InitCompute ==
    /\ _models = init(<<>>).models
    /\ path \in {{exe_2d, exe_3d}, {exe_2d}}
    /\ env = Environment("env", two_d)
    /\ ret = [op |-> "import"]
    /\ comp = NoCompute
    /\ heap = NoHeap
    /\ calls = NoCalls
    /\ files = NoFiles
    /\ run = Idle

\* the debug flag and base name of a compute call; a call with debug set keeps its
\* working files, so it is made on a caller-supplied base name
CompCalls == {<<FALSE, NoBase>>, <<FALSE, OutBase>>, <<TRUE, OutBase>>}

\* compute(env, model, task, debug, fname_base) is called: lines 182-185
ComputeCall ==
    /\ comp.pc = "idle"
    /\ run.pc = "idle"
    /\ \E envArg \in Args(CompEnvs), modelArg \in Args(CompModels),
          taskArg \in Args(CompTasks), call \in CompCalls :
        /\ Len(as_list(envArg)) * Len(as_list(modelArg)) * Len(as_list(taskArg))
               <= MaxRuns
        /\ comp' = loop_headers([NoCompute EXCEPT !.pc = "for_env",
                                                  !.envs = as_list(envArg),
                                                  !.models_ = as_list(modelArg),
                                                  !.tasks = as_list(taskArg),
                                                  !.debug = call[1],
                                                  !.fname_base = call[2]])
    /\ UNCHANGED <<_models, path, env, ret, heap, calls, files, run>>

\* lines 191-201, up to the call of model_fn.run: the environment is checked, the
\* task resolved and the adapter selected
ComputeBodyStep ==
    /\ comp.pc = "body"
    /\ \E c \in {check(comp.envs[comp.i])} :
       \E this_task \in {resolve_task(comp.tasks[comp.k], c.env)} :
        LET this_env == c.env
            checked == [comp EXCEPT !.envs[comp.i] = this_env,
                                    !.checks = comp.checks + 1]
            selected == [checked EXCEPT !.this_task = this_task,
                                        !.selects = comp.selects + 1]
        IN  IF ~c.res.ok
            THEN /\ comp' = fail(checked, "check", c.res)
                 /\ run' = run
            ELSE IF this_task = None
            THEN /\ comp' = fail(checked, "task", Raise("ValueError"))
                 /\ run' = run
            ELSE \E model_fn \in {select(_models, path, this_env, this_task,
                                         comp.models_[comp.j])} :
                 IF ~model_fn.ok
                 THEN /\ comp' = fail(selected, "select", model_fn)
                      /\ run' = run
                 ELSE /\ comp.fname_base = NoBase =>
                           \E t \in TempBases : <<t, ext_env>> \notin DOMAIN files
                      /\ comp' = [selected EXCEPT !.pc = "run", !.runs = comp.runs + 1]
                      /\ run' = run_enter(model_fn.val, this_env, this_task, comp.debug,
                                          comp.fname_base)
    /\ UNCHANGED <<_models, path, ret, heap, calls, files>>

\* the loop body of a compute call made on environments of its own
ComputeBody ==
    /\ ComputeBodyStep
    /\ UNCHANGED env

\* lines 197-202: model_fn.run returned; the record is appended and the loops go on
ComputeRunReturned ==
    /\ comp.pc = "run"
    /\ run.pc = "returned"
    /\ LET r == [name |-> comp.envs[comp.i].name,
                 model |-> comp.models_[comp.j],
                 task |-> comp.this_task,
                 results |-> run.res.val]
       IN  comp' = loop_headers([comp EXCEPT !.pc = "for_task", !.k = comp.k + 1,
                                             !.results = append(comp.results, r)])
    /\ run' = Idle
    /\ UNCHANGED <<_models, path, env, ret, heap, calls, files>>

\* line 201: model_fn.run raised; compute lets the exception through
ComputeRunRaised ==
    /\ comp.pc = "run"
    /\ run.pc = "raised"
    /\ comp' = fail(comp, "run", run.res)
    /\ run' = Idle
    /\ UNCHANGED <<_models, path, env, ret, heap, calls, files>>

\* lines 203-217: the loops are over; no record at all fails the assertion, one
\* record is returned alone, more are returned with the index table
ComputeReturn ==
    /\ comp.pc = "after"
    /\ comp' = IF Len(comp.results) = 0
               THEN [comp EXCEPT !.pc = "raised", !.stage = "assert",
                                 !.res = Raise("AssertionError")]
               ELSE IF Len(comp.results) > 1
               THEN [comp EXCEPT !.pc = "returned",
                                 !.res = Ok([results |-> comp.results,
                                             index_df |-> index_df(comp.results)])]
               ELSE [comp EXCEPT !.pc = "returned", !.res = Ok(comp.results[1])]
    /\ UNCHANGED <<_models, path, env, ret, heap, calls, files, run>>

NextCompute ==
    \/ ComputeCall
    \/ ComputeBody
    \/ ComputeRunReturned
    \/ ComputeRunRaised
    \/ ComputeReturn
    \/ PrepareEnvFile
    \/ WriteEnv
    \/ RunExe
    \/ \E returncode \in {0, 1}, output \in BOOLEAN :
            ExeExit(returncode, <<>>, FALSE, <<>>, output)
    \/ RunExeCheck
    \/ LoadTaskData(TRUE)
    \/ Cleanup

SpecCompute == InitCompute /\ [][NextCompute]_vars

-----------------------------------------------------------------------------
(* Properties of compute *)

\* the task of a run: the task given, or the environment's own where none is given
EffectiveTask(task, e) == IF task /= None THEN task ELSE e.task

Combinations == Len(comp.envs) * Len(comp.models_) * Len(comp.tasks)

\* C11: compute returns the single record when exactly one combination was computed,
\* and otherwise the pair of the list of all records and an index table with one
\* row per record, keyed 0..n-1, whose i-th row holds the name, model and task of the
\* i-th record; it never returns with no record, an empty sweep raises.
C11_ReturnShape ==
    /\ comp.pc = "returned" =>
        /\ comp.res.ok
        /\ Len(comp.results) >= 1
        /\ Combinations = 1 => comp.res.val = comp.results[1]
        /\ Combinations /= 1 =>
            /\ comp.res.val.results = comp.results
            /\ Len(comp.res.val.results) = Combinations
            /\ DOMAIN comp.res.val.index_df = 1..Len(comp.results)
            /\ \A n \in 1..Len(comp.results) :
                 LET row == comp.res.val.index_df[n]
                 IN  /\ row.i = n - 1
                     /\ row.name = comp.results[n].name
                     /\ row.model = comp.results[n].model
                     /\ row.task = comp.results[n].task
    /\ (comp.pc = "raised" /\ comp.stage = "assert") =>
        /\ Combinations = 0
        /\ comp.res = Raise("AssertionError")
    /\ (comp.pc = "after" /\ Combinations = 0) => comp.results = <<>>

\* C11 witness: a sweep of more than one combination returned its records with the
\* index table.
C11_Witness ==
    /\ comp.pc = "returned"
    /\ Combinations = 4
    /\ Len(comp.res.val.index_df) = 4
    /\ comp.res.val.index_df[4].name /= comp.res.val.index_df[1].name

\* C11 witness of the other shape: the one combination's record is returned alone
C11_SingleReturned ==
    /\ comp.pc = "returned"
    /\ Combinations = 1
    /\ comp.res.val.name = comp.envs[1].name

\* C11 witness of the empty sweep: an empty list argument ends in the assertion
C11_EmptyRaised == comp.pc = "raised" /\ comp.stage = "assert"

\* C12: in each combination compute uses the task given when one is given and the
\* environment's own task otherwise; when neither is set it raises ValueError for
\* that combination before any model is selected and before anything is run.
C12_EffectiveTask ==
    /\ comp.pc = "run" =>
        /\ comp.this_task /= None
        /\ comp.this_task = IF comp.tasks[comp.k] /= None THEN comp.tasks[comp.k]
                            ELSE comp.envs[comp.i].task
        /\ run.task = comp.this_task
    /\ (comp.pc = "raised" /\ comp.stage \in {"select", "run"}) =>
        comp.this_task = IF comp.tasks[comp.k] /= None THEN comp.tasks[comp.k]
                         ELSE comp.envs[comp.i].task
    /\ (comp.pc = "raised" /\ comp.stage = "task") =>
        /\ comp.tasks[comp.k] = None
        /\ comp.envs[comp.i].task = None
        /\ comp.res = Raise("ValueError")
        /\ comp.selects = Len(comp.results)
        /\ comp.runs = Len(comp.results)
        /\ run = Idle
    /\ (comp.pc \in {"run", "raised"} /\ comp.stage \in {"none", "select", "run"}
          /\ comp.checks > Len(comp.results)) =>
        ~(comp.tasks[comp.k] = None /\ comp.envs[comp.i].task = None)

\* C12 witness: a combination with no task given runs the environment's own task
\* although an earlier task of the call was explicit.
C12_Witness ==
    /\ comp.pc = "run"
    /\ comp.tasks[comp.k] = None
    /\ comp.this_task = "rays"
    /\ comp.k = 2

\* C12 witness of the error: neither task is set in the second combination
C12_NeitherSet ==
    /\ comp.pc = "raised" /\ comp.stage = "task"
    /\ Len(comp.results) = 1

\* C13: the first combination that fails aborts the whole sweep: compute raises that
\* combination's error, the failed combination is the last one validated, selected
\* or run, nothing happens after the raise, and a call that returns has a record
\* for every combination.
C13_FirstFailureAborts ==
    /\ [](/\ (comp.pc = "raised" /\ comp.stage \in {"check", "task", "select", "run"}) =>
               /\ ~comp.res.ok
               /\ comp.checks = Len(comp.results) + 1
               /\ comp.selects <= comp.checks
               /\ comp.runs <= comp.selects
               /\ Len(comp.results) = ((comp.i - 1) * Len(comp.models_) + (comp.j - 1))
                                          * Len(comp.tasks) + (comp.k - 1)
               /\ run = Idle
          /\ comp.pc = "returned" =>
               /\ Len(comp.results) = Combinations
               /\ comp.checks = Combinations
               /\ comp.runs = Combinations)
    /\ [][comp.pc = "raised" => UNCHANGED vars]_vars

\* C13 witness: the second of four combinations failed in its run; one record had
\* been collected and is not returned.
C13_Witness ==
    /\ comp.pc = "raised" /\ comp.stage = "run"
    /\ Combinations = 4
    /\ Len(comp.results) = 1
    /\ comp.checks = 2
    /\ ~comp.res.ok

-----------------------------------------------------------------------------
(* Environment: assignments and check() *)

\* the arrays and tables assigned in the behaviours of SpecEnv
DepthArray == Array2(<<<<0, 20>>, <<1000, 30>>>>)

SurfaceArray == Array2(<<<<0, 0>>, <<1000, 1>>>>)

CoefficientArray == Array2(<<<<0, 1, 0>>, <<90, 1, 0>>>>)

SspDepths == <<0, 10, 30>>

SspSpeeds == <<1500, 1510, 1530>>

\* the assignments env[key] = value made, <<key, value, value is None>>: of arrays
ArrayAssignments ==
    {<<"depth", v, FALSE>> : v \in {Scalar(25), DepthArray}}
    \cup {<<"surface", NoArray, TRUE>>, <<"surface", SurfaceArray, FALSE>>}
    \cup {<<"surface_reflection_coefficient", NoArray, TRUE>>,
          <<"surface_reflection_coefficient", CoefficientArray, FALSE>>,
          <<"bottom_reflection_coefficient", NoArray, TRUE>>,
          <<"bottom_reflection_coefficient", CoefficientArray, FALSE>>}
    \cup {<<"foo", Scalar(1), FALSE>>, <<"check", Scalar(1), FALSE>>}

\* of strings
StringAssignments ==
    {<<"surface_boundary_condition", v, FALSE>> : v \in {vacuum, from_file, "bogus"}}
    \cup {<<"bottom_boundary_condition", v, FALSE>> : v \in {acousto_elastic, from_file}}
    \cup {<<"bottom_boundary_condition", None, TRUE>>}

InitEnv ==
    /\ InitRegistry
    /\ path = {exe_2d, exe_3d}

NextEnv ==
    \/ \E a \in ArrayAssignments : SetAttr(a[1], a[2], a[3])
    \/ \E a \in StringAssignments : SetAttr(a[1], a[2], a[3])
    \/ Check

SpecEnv == InitEnv /\ [][NextEnv]_vars

\* assignments of depths, <<key, value, value is None>>
DepthAssignments ==
    {<<"depth", v, FALSE>> : v \in {Scalar(25), Scalar(20), DepthArray}}

\* of numbers
NumberAssignments ==
    {<<"depth_max", 10, FALSE>>, <<"depth_max", 20, FALSE>>, <<"depth_max", 40, FALSE>>,
     <<"depth_max", NoneInt, TRUE>>}

\* of sound speeds
SspAssignments ==
    {<<"soundspeed", v, FALSE>> :
        v \in {SspScalar(sound_speed), SspArray(<<5>>, <<1500>>, 2),
               SspArray(SspDepths, SspSpeeds, 2), SspArray(SspDepths, SspSpeeds, 3),
               SspArray(<<0, 30, 10>>, SspSpeeds, 2),
               SspTable(SspDepths, SspSpeeds, 1, TRUE)}}

\* of source depths
SourceAssignments == {<<"source_depth", v, FALSE>> : v \in {Scalar(5), Scalar(50)}}

NextSsp ==
    \/ \E a \in DepthAssignments \cup SourceAssignments : SetAttr(a[1], a[2], a[3])
    \/ \E a \in NumberAssignments : SetAttr(a[1], a[2], a[3])
    \/ \E a \in SspAssignments : SetAttr(a[1], a[2], a[3])
    \/ Check

SpecSsp == InitEnv /\ [][NextSsp]_vars

-----------------------------------------------------------------------------
(* Environment objects and the array objects their fields refer to *)

\* the array-valued fields that are followed
HeapFields == {"depth", "receiver_depth"}

\* what a field refers to: array object id (row = 0), the view of row `row` of array
\* object id, or a number x of its own (id = 0)
Ref(id, row) == [id |-> id, row |-> row, x |-> 0]

Num(x) == [id |-> 0, row |-> 0, x |-> x]

\* the value that a field referring to r has
value(h, r) ==
    IF r.id = 0 THEN Scalar(r.x)
    ELSE IF r.row = 0 THEN h.arrays[r.id]
    ELSE Array1(h.arrays[r.id].v[r.row])

\* __setattr__ (lines 626-633) of a list: numpy.asarray makes a new array object, to
\* which the field of object o then refers
setattr_list(h, o, key, a) ==
    [arrays |-> Append(h.arrays, a),
     objs |-> [h.objs EXCEPT ![o][key] = Ref(Len(h.arrays) + 1, 0)]]

\* a copy that copies the arrays
RECURSIVE deep(_, _, _)
deep(h, obj, fs) ==
    IF fs = {} THEN [h EXCEPT !.objs = Append(h.objs, obj)]
    ELSE LET f == CHOOSE g \in fs : TRUE
         IN  IF obj[f].id = 0 THEN deep(h, obj, fs \ {f})
             ELSE deep([h EXCEPT !.arrays = Append(h.arrays, value(h, obj[f]))],
                       [obj EXCEPT ![f] = Ref(Len(h.arrays) + 1, 0)], fs \ {f})

copy_obj_deep(h, o) == deep(h, h.objs[o], HeapFields)

\* Environment.copy (lines 651-657): type(self)(**data) assigns the value of every
\* field to the new object, and numpy.asarray (line 632) of an array of float64 is
\* that array object itself: the new object refers to the arrays of the old
copy_obj(h, o) == [h EXCEPT !.objs = Append(h.objs, h.objs[o])]

\* iterating the value of a field (unwrap, lines 327-336): a number gives itself,
\* a one-dimensional array its numbers, a two-dimensional array views of its rows
iterate(h, r) ==
    IF r.id = 0 THEN <<r>>
    ELSE IF r.row > 0 \/ h.arrays[r.id].nd = 1
    THEN LET row == value(h, r).v[1] IN [i \in 1..Len(row) |-> Num(row[i])]
    ELSE [i \in 1..Len(h.arrays[r.id].v) |-> Ref(r.id, i)]

\* unwrap(key) of object o (lines 341-344): a copy for each value, its field key
\* referring to the value
unwrap_obj(h, o, key) ==
    LET vals == iterate(h, h.objs[o][key])
    IN  [h EXCEPT !.objs = h.objs \o [i \in 1..Len(vals) |->
                                          [copy_obj(h, o).objs[Len(h.objs) + 1]
                                               EXCEPT ![key] = vals[i]]]]

\* the caller's env[key][i, j] = x (of a one-dimensional array or a view:
\* env[key][j] = x), on the array object that __getitem__ (lines 609-612) hands out
poke(h, r, i, j, x) ==
    [h EXCEPT !.arrays[r.id].v[IF r.row > 0 THEN r.row ELSE i][j] = x]

MaxObjs == 3

MaxArrays == 3

\* env = Environment(depth=[[0, 20], [1000, 30]], receiver_depth=[5, 10])
InitCopy ==
    /\ _models = init(<<>>).models
    /\ path = {exe_2d, exe_3d}
    /\ env = Environment("env", two_d)
    /\ ret = [op |-> "import"]
    /\ comp = NoCompute
    /\ files = NoFiles
    /\ run = Idle
    /\ calls = NoCalls
    /\ heap = [arrays |-> <<DepthArray, Array1(<<5, 10>>)>>,
               objs |-> <<[depth |-> Ref(1, 0), receiver_depth |-> Ref(2, 0)]>>]

\* o2 = o.copy()
CopyEnv ==
    \E o \in 1..Len(heap.objs) :
        /\ Len(heap.objs) < MaxObjs
        /\ heap' = copy_obj(heap, o)
        /\ ret' = [op |-> "copy", o |-> o, before |-> heap]
        /\ UNCHANGED <<_models, path, env, files, run, comp, calls>>

\* o.unwrap(key)
UnwrapEnv ==
    \E o \in 1..Len(heap.objs), key \in HeapFields :
        /\ Len(unwrap_obj(heap, o, key).objs) <= MaxObjs
        /\ heap' = unwrap_obj(heap, o, key)
        /\ ret' = [op |-> "unwrap", o |-> o, before |-> heap]
        /\ UNCHANGED <<_models, path, env, files, run, comp, calls>>

\* o["depth"] = a list
SetItem ==
    \E o \in 1..Len(heap.objs) :
        /\ Len(heap.arrays) < MaxArrays
        /\ heap' = setattr_list(heap, o, "depth", DepthArray)
        /\ ret' = [op |-> "setitem", o |-> o, before |-> heap]
        /\ UNCHANGED <<_models, path, env, files, run, comp, calls>>

\* o[key][i, -1] = 99, where that changes the array
Poke ==
    \E o \in 1..Len(heap.objs), key \in HeapFields :
        LET r == heap.objs[o][key]
            a == value(heap, r)
        IN  /\ r.id > 0
            /\ \E i \in 1..Len(a.v) : \E j \in {Len(a.v[i])} :
                  /\ a.v[i][j] /= 99
                  /\ heap' = poke(heap, r, i, j, 99)
            /\ ret' = [op |-> "poke", o |-> o, key |-> key, before |-> heap]
            /\ UNCHANGED <<_models, path, env, files, run, comp, calls>>

NextCopy == CopyEnv \/ UnwrapEnv \/ SetItem \/ Poke

SpecCopy == InitCopy /\ [][NextCopy]_vars

\* Environment.unwrap(*keys)
Unwrap(keys) ==
    /\ ret' = [op |-> "unwrap", keys |-> keys, res |-> unwrap(env, keys)]
    /\ UNCHANGED <<_models, path, env, runVars>>

MaxKeys == 2

UnwrapKeys ==
    {"receiver_depth", "receiver_range", "depth", "soundspeed_interp", "foo", "check",
     "__slots__", "__hash__"}

\* the argument lists of unwrap: up to MaxKeys keys, no key twice
KeyLists ==
    {keys \in UNION {[1..n -> UnwrapKeys] : n \in 0..MaxKeys} :
        \A i, j \in 1..Len(keys) : keys[i] = keys[j] => i = j}

\* assignments of arrays to the fields that are unwrapped
UnwrapAssignments ==
    {<<"receiver_depth", v, FALSE>> : v \in {Scalar(10), Array1(<<5, 10, 15>>)}}
    \cup {<<"receiver_range", v, FALSE>> : v \in {Scalar(1000), Array1(<<500, 1234567>>)}}
    \cup {<<"depth", v, FALSE>> : v \in {Scalar(25), DepthArray}}

NextUnwrap ==
    \/ \E a \in UnwrapAssignments : SetAttr(a[1], a[2], a[3])
    \/ \E keys \in KeyLists : Unwrap(keys)

SpecUnwrap == InitEnv /\ [][NextUnwrap]_vars

-----------------------------------------------------------------------------
(* Properties of Environment *)

\* the last call was a check() that succeeded
CheckSucceeded == ret.op = "check" /\ ret.res.ok

\* C14: an assignment to a name that is not a field of Environment raises, an
\* assignment of a value that is not None and not in the allowed set of a field that
\* has one raises, and in both cases the environment is as it was before.
C14_AssignmentRejected ==
    ret.op = "setattr" =>
        /\ ret.key \notin FieldNames => (~ret.res.ok /\ ~ret.changed)
        /\ (ret.key \in MapNames /\ ~ret.isnone /\ ~ret.listed) =>
              (~ret.res.ok /\ ~ret.changed)

\* C14, the part that holds: a name that is no attribute at all raises KeyError, a
\* value outside the allowed set raises ValueError, and a failed assignment changes
\* nothing.
C14_UnknownAttributeRejected ==
    ret.op = "setattr" =>
        /\ ret.key \notin FieldNames \cup MethodNames => ret.res = Raise("KeyError")
        /\ (ret.key \in MapNames /\ ~ret.isnone /\ ~ret.listed) =>
              ret.res = Raise("ValueError")
        /\ ~ret.res.ok => ~ret.changed

\* C15: a check() that follows a successful check() with no assignment in between
\* succeeds and leaves every field as the first call left it.
C15_CheckIdempotent ==
    (ret.op = "check" /\ ret.again) => (ret.res.ok /\ env = ret.before)

\* C15, the case the claim names: the first check() cut the table at a depth_max
\* strictly between two of its depths, and the second changed nothing
C15_CutThenStable ==
    /\ ret.op = "check" /\ ret.again /\ ret.res.ok
    /\ env = ret.before
    /\ env.soundspeed.index = <<0, 10, 20>>

\* C18: for the surface and for the bottom, check() forces the boundary condition to
\* from-file when the reflection coefficient is set, and fails when the boundary
\* condition is from-file without a coefficient; so after a successful check() the
\* boundary condition is from-file exactly when the coefficient is set.
C18_FromFileIffCoefficient ==
    /\ ret.op = "check" =>
        /\ env.surface_reflection_coefficient /= NoArray =>
              env.surface_boundary_condition = from_file
        /\ env.bottom_reflection_coefficient /= NoArray =>
              env.bottom_boundary_condition = from_file
    /\ CheckSucceeded =>
        /\ env.surface_boundary_condition = from_file <=>
              env.surface_reflection_coefficient /= NoArray
        /\ env.bottom_boundary_condition = from_file <=>
              env.bottom_reflection_coefficient /= NoArray

\* C18, the half that holds: a coefficient that is set forces from-file
C18_CoefficientForcesFromFile ==
    ret.op = "check" =>
        /\ env.surface_reflection_coefficient /= NoArray =>
              env.surface_boundary_condition = from_file
        /\ env.bottom_reflection_coefficient /= NoArray =>
              env.bottom_boundary_condition = from_file

\* C19: after a successful check() the bathymetry flag is from-file exactly when
\* depth is an array of more than one element and flat otherwise, and the altimetry
\* flag is from-file exactly when surface is set and flat otherwise.
C19_FlagsFollowFields ==
    CheckSucceeded =>
        /\ env._bathymetry = (IF np_size(env.depth) > 1 THEN from_file ELSE flat)
        /\ env._altimetry = (IF env.surface /= NoArray THEN from_file ELSE flat)

\* C20: after a successful check() soundspeed is a table of at least two rows whose
\* depths are strictly increasing, start at or above the surface (depth 0) and end
\* at depth_max.
C20_SoundspeedTable ==
    CheckSucceeded =>
        /\ env.soundspeed.kind = "table"
        /\ ~env.soundspeed.depth_col
        /\ Len(env.soundspeed.index) >= 2
        /\ Len(env.soundspeed.speed) = Len(env.soundspeed.index)
        /\ strictly_increasing(env.soundspeed.index)
        /\ env.soundspeed.index[1] <= 0
        /\ env.soundspeed.index[Len(env.soundspeed.index)] = env.depth_max

\* the number of values of field key of e, and its d-th value
size_of(e, key) ==
    IF key \notin ArrayFields THEN 1
    ELSE IF e[key].nd = 1 THEN Len(e[key].v[1])
    ELSE IF e[key].nd = 2 THEN Len(e[key].v)
    ELSE 1

value_at(e, key, d) ==
    IF key \notin ArrayFields THEN e[key]
    ELSE IF e[key].nd = 1 THEN Scalar(e[key].v[1][d])
    ELSE IF e[key].nd = 2 THEN Array1(e[key].v[d])
    ELSE e[key]

\* a value written compactly: a number below ten million by the nearest number of
\* six significant digits, an array or a text as it is
compact(key, v) ==
    IF key \notin ArrayFields THEN v
    ELSE IF v.nd > 0 \/ v.v[1][1] < 1000000 THEN v
    ELSE Scalar(CHOOSE m \in (v.v[1][1] - 4)..(v.v[1][1] + 5) : m % 10 = 0)

\* the product of the sizes of the keys from position n on
RECURSIVE sizes_from(_, _, _)
sizes_from(e, keys, n) ==
    IF n > Len(keys) THEN 1 ELSE size_of(e, keys[n]) * sizes_from(e, keys, n + 1)

\* the value of the n-th key in the p-th combination (p from 0), the last key
\* varying fastest
digit(e, keys, n, p) == ((p \div sizes_from(e, keys, n + 1)) % size_of(e, keys[n])) + 1

\* unwrap over array or scalar fields returned the product: the count, the order, the
\* unwrapped fields, the untouched fields and the names
UnwrapIsProduct ==
    LET keys == ret.keys
        out == ret.res.val
    IN  /\ ret.res.ok
        /\ Len(out) = sizes_from(env, keys, 1)
        /\ \A p \in 0..(Len(out) - 1) :
              /\ \A n \in 1..Len(keys) :
                    /\ out[p + 1][keys[n]] = value_at(env, keys[n], digit(env, keys, n, p))
                    /\ out[p + 1].name[n + 1][1] = keys[n]
                    /\ out[p + 1].name[n + 1][2] = compact(keys[n], out[p + 1][keys[n]])
              /\ Len(out[p + 1].name) = Len(keys) + 1
              /\ out[p + 1].name[1] = env.name
              /\ \A f \in (FieldNames \ {"name"}) \ {keys[n] : n \in 1..Len(keys)} :
                    out[p + 1][f] = env[f]

\* C16: unwrap over fields with n1..nm values returns n1*...*nm environments in the
\* order of the Cartesian product, each equal to the source but for the unwrapped
\* fields, which hold the combination, and the name, which is the source's followed
\* by one part per key; unwrap with a name that is not a field raises an error.
C16_UnwrapProduct ==
    ret.op = "unwrap" =>
        IF \A n \in 1..Len(ret.keys) : ret.keys[n] \in FieldNames
        THEN UnwrapIsProduct
        ELSE ~ret.res.ok

\* C16, the part that holds: the product over fields, and KeyError for a name that is
\* no attribute of the environment at all
C16_UnwrapFields ==
    ret.op = "unwrap" =>
        /\ (\A n \in 1..Len(ret.keys) : ret.keys[n] \in FieldNames) => UnwrapIsProduct
        /\ (\E n \in 1..Len(ret.keys) : ret.keys[n] = "foo") => ret.res = Raise("KeyError")

\* C16: a product of three values by two, and one whose text is rounded
C16_SixEnvironments ==
    /\ ret.op = "unwrap" /\ ret.res.ok
    /\ ret.keys = <<"receiver_depth", "receiver_range">>
    /\ Len(ret.res.val) = 6
    /\ ret.res.val[2].receiver_depth = Scalar(5)
    /\ ret.res.val[2].receiver_range = Scalar(1234567)
    /\ ret.res.val[2].name = <<"env", <<"receiver_depth", Scalar(5)>>,
                                <<"receiver_range", Scalar(1234570)>>>>

\* C17: copies (of copy() and of unwrap) are deep in the array-valued fields: after a
\* change made in place to an array-valued field of one environment, every other
\* environment holds the values it held before.
C17_CopiesAreDeep ==
    ret.op = "poke" =>
        \A p \in 1..Len(heap.objs) : \A f \in HeapFields :
            p /= ret.o => value(heap, heap.objs[p][f]) = value(ret.before, heap.objs[p][f])

\* C17 as the code has it: a copy refers to the array objects of its source, and an
\* environment unwrapped over a two-dimensional field to a view of the source's row.
\* A change made in place through one environment is seen through every field of
\* every environment that refers to that array, and by no other; assigning a new
\* value to a field of one environment changes no other environment.
C17_CopiesShareArrays ==
    /\ ret.op = "copy" =>
          /\ Len(heap.objs) = Len(ret.before.objs) + 1
          /\ heap.arrays = ret.before.arrays
          /\ \A f \in HeapFields : heap.objs[Len(heap.objs)][f] = heap.objs[ret.o][f]
    /\ ret.op = "unwrap" =>
          /\ heap.arrays = ret.before.arrays
          /\ \A p \in (Len(ret.before.objs) + 1)..Len(heap.objs) :
                \A f \in HeapFields :
                    \/ heap.objs[p][f] = heap.objs[ret.o][f]
                    \/ heap.objs[p][f].id = 0
                    \/ /\ heap.objs[p][f].id = heap.objs[ret.o][f].id
                       /\ heap.objs[p][f].row > 0
    /\ ret.op = "poke" =>
          LET r == heap.objs[ret.o][ret.key]
          IN  /\ value(heap, r) /= value(ret.before, r)
              /\ \A p \in 1..Len(heap.objs) : \A f \in HeapFields :
                    LET q == heap.objs[p][f]
                    IN  /\ q = r => value(heap, q) /= value(ret.before, q)
                        /\ q.id /= r.id => value(heap, q) = value(ret.before, q)
    /\ ret.op = "setitem" =>
          \A p \in 1..Len(ret.before.objs) : \A f \in HeapFields :
              p /= ret.o =>
                  value(heap, heap.objs[p][f]) = value(ret.before, ret.before.objs[p][f])

\* C17: a change made in place through a copy is seen in the source, and a change
\* made through an unwrapped environment's row in the source's array
C17_Witness ==
    /\ ret.op = "poke" /\ ret.o > 1
    /\ heap.objs[ret.o][ret.key].row > 0
    /\ value(heap, heap.objs[1].depth) /= value(ret.before, heap.objs[1].depth)
    /\ value(heap, heap.objs[1].depth) = Array2(<<<<0, 20>>, <<1000, 99>>>>)

\* C21: a check() that rejects the environment raises the validation error
\* (ValueError) and no other kind of exception.
C21_OnlyValidationError ==
    (ret.op = "check" /\ ~ret.res.ok) => ret.res = Raise("ValueError")

\* C21, the cases that hold: a source depth beyond depth_max is rejected with
\* ValueError, and so is a table whose depths do not increase (a rejected
\* environment keeps the table that was checked)
C21_AssertionsAreValueErrors ==
    ret.op = "check" =>
        /\ (env.depth_max /= NoneInt /\ np_max(env.source_depth) > env.depth_max) =>
              ret.res = Raise("ValueError")
        /\ (~ret.res.ok /\ ~strictly_increasing(env.soundspeed.index)) =>
              ret.res = Raise("ValueError")

\* C21: check() of a table that ends above depth_max raised IndexError
C21_ShallowTableIndexError ==
    /\ ret.op = "check" /\ ret.res = Raise("IndexError")
    /\ env.soundspeed.index = SspDepths
    /\ env.depth_max = 40

-----------------------------------------------------------------------------
(* The task-specific helpers of main.py, and a caller that also calls run itself *)

\* an index argument: one position, or a list of positions (counted from 0)
Ndx(i) == [many |-> FALSE, at |-> <<i>>]

NdxList(is) == [many |-> TRUE, at |-> is]

\* a[ndx] for a one-dimensional array a: the element at a position, the array of the
\* elements at a list of positions, IndexError for a position past the end
getitem_ndx(a, ndx) ==
    LET xs == a.v[1]
    IN  IF \E k \in 1..Len(ndx.at) : ndx.at[k] >= Len(xs) THEN Raise("IndexError")
        ELSE IF ndx.many THEN Ok(Array1([k \in 1..Len(ndx.at) |-> xs[ndx.at[k] + 1]]))
        ELSE Ok(Scalar(xs[ndx.at[1] + 1]))

\* main.py lines 284-289, 323-325, 365-366:
\* if np.size(env[key]) > 1: env[key] = env[key][ndx]
select_field(e, key, ndx) ==
    LET this == e
        g == getitem_ndx(this[key], ndx)
    IN  IF np_size(this[key]) > 1
        THEN IF ~g.ok THEN [env |-> this, res |-> g] ELSE setattr(this, key, g.val, FALSE)
        ELSE [env |-> this, res |-> Ok(None)]

\* the element of a set of one element
only(S) == CHOOSE x \in S : TRUE

\* what a helper has done when it calls compute: caller is the caller's object as the
\* helper leaves it, callee the object handed to compute, same says that the two are
\* one object, res is the exception that ended the helper before the call, if any
helper_pre(caller, callee, same, task, res) ==
    [caller |-> caller, callee |-> callee, same |-> same, task |-> task, res |-> res]

\* compute_eigenrays, lines 283-290, on the checked environment e: the copy, and the
\* three selections on it, each made if the one before raised nothing
eigenrays_select(e, source_depth_ndx, receiver_depth_ndx, receiver_range_ndx) ==
    only({ IF ~s1.res.ok THEN helper_pre(e, s1.env, FALSE, "eigenrays", s1.res)
           ELSE only({ IF ~s2.res.ok
                       THEN helper_pre(e, s2.env, FALSE, "eigenrays", s2.res)
                       ELSE only({ helper_pre(e, s3.env, FALSE, "eigenrays", s3.res) :
                                   s3 \in {select_field(s2.env, "receiver_range",
                                                        receiver_range_ndx)} }) :
                       s2 \in {select_field(s1.env, "receiver_depth",
                                            receiver_depth_ndx)} }) :
           s1 \in {select_field(copy(e), "source_depth", source_depth_ndx)} })

\* mutant of rays_select: the selection is made on the caller's object
rays_select_in_place(e, source_depth_ndx) ==
    only({ helper_pre(s1.env, s1.env, TRUE, "rays", s1.res) :
           s1 \in {select_field(e, "source_depth", source_depth_ndx)} })

\* compute_rays, lines 323-326, on the checked environment e: a copy is made only
\* for the selection
rays_select(e, source_depth_ndx) ==
    IF np_size(e.source_depth) <= 1 THEN helper_pre(e, e, TRUE, "rays", Ok(None))
    ELSE only({ helper_pre(e, s1.env, FALSE, "rays", s1.res) :
                s1 \in {select_field(copy(e), "source_depth", source_depth_ndx)} })

\* the values EnvDefaults.interference_mode can have: a key of taskmap that reads a
\* pressure field
InterferenceModes == {"coherent", "incoherent", "semicoherent"}

\* line 361: mode or env.get("interference_mode") or EnvDefaults.interference_mode
resolve_mode(mode, e, default_mode) ==
    IF TruthyStr(mode) THEN mode
    ELSE IF TruthyStr(e.interference_mode) THEN e.interference_mode
    ELSE default_mode

\* compute_transmission_loss, lines 360-362: the copy with the mode assigned
transmission_loss_copy(e, task) == setattr(copy(e), "interference_mode", task, FALSE).env

\* the environments of the caller: the default one, one with two sources, two
\* receiver depths and two receiver ranges, one with an interference mode of its
\* own, and one whose source is below the bottom
HelperEnvs ==
    LET d == Environment("env", two_d)
    IN  { d,
          [d EXCEPT !.source_depth = Array1(<<5, 10>>),
                    !.receiver_depth = Array1(<<10, 20>>),
                    !.receiver_range = Array1(<<500, 1000>>)],
          [d EXCEPT !.interference_mode = "incoherent",
                    !.source_depth = Array1(<<5, 10>>)],
          [d EXCEPT !.source_depth = Scalar(50)] }

\* the index arguments of a helper call
IndexArgs == {Ndx(0), Ndx(1), Ndx(2), NdxList(<<0, 1>>), NdxList(<<1>>)}

InitHelpers ==
    /\ _models = init(<<>>).models
    /\ path = {exe_2d, exe_3d}
    /\ env \in HelperEnvs
    /\ ret = [op |-> "import"]
    /\ comp = NoCompute
    /\ heap = NoHeap
    /\ calls = NoCalls
    /\ files = NoFiles
    /\ run = Idle

\* nothing is running: the caller is between two calls
CallerIdle == comp.pc = "idle" /\ run.pc = "idle"

\* the caller assigns a field of its environment
CallerSetAttr ==
    /\ CallerIdle
    /\ \/ \E v \in {Scalar(5), Array1(<<5, 10>>)} : SetAttr("source_depth", v, FALSE)
       \/ \E m \in {"incoherent"} : SetAttr("interference_mode", m, FALSE)

\* the caller checks its environment
CallerCheck ==
    /\ CallerIdle
    /\ Check

\* the call of a helper in progress: its name and arguments, the caller's
\* environment at the call, the statement it is at, whether compute was handed the
\* caller's own object, and how the helper ended
Helper(fn, sd, rd, rr, task, pc) ==
    [op |-> "helper", fn |-> fn, before |-> env, source_depth_ndx |-> sd,
     receiver_depth_ndx |-> rd, receiver_range_ndx |-> rr, task |-> task, pc |-> pc,
     same |-> FALSE, done |-> FALSE, res |-> Ok(None)]

\* the helper is past its selections, or has raised: its index arguments are dead
helper_at(r, pc, same, res) ==
    [r EXCEPT !.pc = pc, !.same = same, !.res = res, !.done = ~res.ok,
              !.source_depth_ndx = Ndx(0), !.receiver_depth_ndx = Ndx(0),
              !.receiver_range_ndx = Ndx(0)]

\* the helper at statement pc
HelperAt(pc) == ret.op = "helper" /\ ret.pc = pc

\* a helper's own object, while compute has not been called
helper_own(e) == [NoCompute EXCEPT !.pc = "helper", !.envs = <<e>>]

\* compute(env, model, task, debug, fname_base) called by a helper (lines 182-185)
helper_compute(e, task) ==
    loop_headers([NoCompute EXCEPT !.pc = "for_env", !.envs = <<e>>,
                                   !.models_ = <<None>>, !.tasks = <<task>>])

\* compute_arrivals(env) is called: line 246, the caller's object goes to compute
ComputeArrivals ==
    /\ CallerIdle
    /\ ret' = [Helper("compute_arrivals", Ndx(0), Ndx(0), Ndx(0), "arrivals", "compute")
                  EXCEPT !.same = TRUE]
    /\ comp' = helper_compute(env, "arrivals")
    /\ UNCHANGED <<_models, path, env, heap, calls, files, run>>

\* compute_eigenrays(env, source_depth_ndx, receiver_depth_ndx, receiver_range_ndx)
\* is called
ComputeEigenrays ==
    /\ CallerIdle
    /\ \E sd \in IndexArgs, rd \in {Ndx(0), Ndx(1)}, rr \in {Ndx(0), NdxList(<<0, 1>>)} :
        ret' = Helper("compute_eigenrays", sd, rd, rr, "eigenrays", "check")
    /\ comp' = helper_own(env)
    /\ UNCHANGED <<_models, path, env, heap, calls, files, run>>

\* compute_rays(env, source_depth_ndx) is called
ComputeRays ==
    /\ CallerIdle
    /\ \E sd \in IndexArgs :
        ret' = Helper("compute_rays", sd, Ndx(0), Ndx(0), "rays", "check")
    /\ comp' = helper_own(env)
    /\ UNCHANGED <<_models, path, env, heap, calls, files, run>>

\* compute_transmission_loss(env, source_depth_ndx, mode) is called, lines 360-362:
\* the copy is made and the mode assigned on it
ComputeTransmissionLoss ==
    /\ CallerIdle
    /\ \E sd \in IndexArgs, mode \in {None, "semicoherent"},
          default_mode \in InterferenceModes :
        \E task \in {resolve_mode(mode, env, default_mode)} :
            /\ ret' = Helper("compute_transmission_loss", sd, Ndx(0), Ndx(0), task,
                             "check_copy")
            /\ comp' = helper_own(transmission_loss_copy(env, task))
    /\ UNCHANGED <<_models, path, env, heap, calls, files, run>>

\* lines 282 and 322: env.check() on the caller's object
HelperCheck ==
    /\ HelperAt("check")
    /\ \E c \in {check(env)} :
        /\ env' = c.env
        /\ ret' = IF c.res.ok THEN [ret EXCEPT !.pc = "select"]
                  ELSE helper_at(ret, "raised", FALSE, c.res)
        /\ comp' = IF c.res.ok THEN comp ELSE NoCompute
    /\ UNCHANGED <<_models, path, heap, calls, files, run>>

\* line 364: env.check() on the copy
HelperCheckCopy ==
    /\ HelperAt("check_copy")
    /\ \E c \in {check(comp.envs[1])} :
        /\ ret' = IF c.res.ok THEN [ret EXCEPT !.pc = "select"]
                  ELSE helper_at(ret, "raised", FALSE, c.res)
        /\ comp' = IF c.res.ok THEN helper_own(c.env) ELSE NoCompute
    /\ UNCHANGED <<_models, path, env, heap, calls, files, run>>

\* what the helper does between its check() and its call of compute
helper_select ==
    IF ret.fn = "compute_eigenrays"
    THEN eigenrays_select(env, ret.source_depth_ndx, ret.receiver_depth_ndx,
                          ret.receiver_range_ndx)
    ELSE IF ret.fn = "compute_rays" THEN rays_select(env, ret.source_depth_ndx)
    ELSE only({ helper_pre(env, s1.env, FALSE, ret.task, s1.res) :
                s1 \in {select_field(comp.envs[1], "source_depth",
                                     ret.source_depth_ndx)} })

\* lines 283-291, 323-327, 365-367: the copy and the selections, then compute is
\* called, unless a selection raised
HelperSelect ==
    /\ HelperAt("select")
    /\ \E h \in {helper_select} :
        /\ env' = h.caller
        /\ ret' = IF h.res.ok THEN helper_at(ret, "compute", h.same, h.res)
                  ELSE helper_at(ret, "raised", FALSE, h.res)
        /\ comp' = IF h.res.ok THEN helper_compute(h.callee, h.task) ELSE NoCompute
    /\ UNCHANGED <<_models, path, heap, calls, files, run>>

\* the loop body of the compute call of a helper: where compute was handed the
\* caller's own object, check() acts on that object
HelperComputeBody ==
    /\ HelperAt("compute")
    /\ ComputeBodyStep
    /\ env' = IF ret.same THEN comp'.envs[comp.i] ELSE env

\* compute has returned or raised, and so does the helper
HelperReturn ==
    /\ comp.pc \in {"returned", "raised"}
    /\ comp' = NoCompute
    /\ ret' = [ret EXCEPT !.pc = comp.pc, !.done = TRUE, !.res = comp.res]
    /\ UNCHANGED <<_models, path, env, heap, calls, files, run>>

\* the caller calls the run method of an adapter itself
DirectRun ==
    /\ CallerIdle
    /\ \E i \in 1..Len(_models) : RunCall(_models[i], "arrivals", FALSE, NoBase)

\* a run call of the caller's own has ended
DirectRunEnds ==
    /\ comp.pc = "idle"
    /\ RunEnds

NextHelpers ==
    \/ CallerSetAttr
    \/ CallerCheck
    \/ ComputeArrivals
    \/ ComputeEigenrays
    \/ ComputeRays
    \/ ComputeTransmissionLoss
    \/ HelperCheck
    \/ HelperCheckCopy
    \/ HelperSelect
    \/ HelperComputeBody
    \/ ComputeRunReturned
    \/ ComputeRunRaised
    \/ ComputeReturn
    \/ HelperReturn
    \/ DirectRun
    \/ DirectRunEnds
    \/ PrepareEnvFile
    \/ WriteEnv
    \/ RunExe
    \/ \E returncode \in {0, 1}, output \in BOOLEAN :
            ExeExit(returncode, <<>>, FALSE, <<>>, output)
    \/ RunExeCheck
    \/ LoadTaskData(TRUE)
    \/ Cleanup

SpecHelpers == InitHelpers /\ [][NextHelpers]_vars

-----------------------------------------------------------------------------
(* Properties of the helpers *)

\* C23 as stated: whenever run is about to write an environment, check() has
\* succeeded on that object since the last assignment to one of its fields.
C23_CheckedBeforeWrite == run.pc = "write" => run.env.checked

\* the part of C23 that holds: an environment that compute, called directly or by a
\* helper, hands to run has been checked since its last assignment
C23_ComputeChecksBeforeWrite ==
    (run.pc = "write" /\ comp.pc = "run") => run.env.checked

\* a run entered by compute is writing
C23_ComputeWrites == run.pc = "write" /\ comp.pc = "run" /\ ret.op = "helper"

\* the fields C30 is about
CallerFields == {"source_depth", "receiver_depth", "receiver_range", "interference_mode"}

\* C30: from the call of compute_eigenrays, compute_rays or
\* compute_transmission_loss to its end, and after it, the source depth, receiver
\* depth, receiver range and interference mode of the caller's environment are the
\* ones it had at the call, whatever the index arguments.
C30_CallerFieldsKept ==
    (ret.op = "helper" /\ ret.fn /= "compute_arrivals") =>
        \A f \in CallerFields : env[f] = ret.before[f]

\* compute_rays has had the rays of the second of two sources computed, on an
\* environment with that source alone, and the caller's still has its two sources
C30_Witness ==
    /\ ret.op = "helper"
    /\ ret.fn = "compute_rays"
    /\ comp.pc = "run"
    /\ run.pc = "returned"
    /\ comp.envs[1].source_depth = Scalar(10)
    /\ env.source_depth = Array1(<<5, 10>>)

-----------------------------------------------------------------------------
(* Environment: range-varying surface and bottom *)

\* range-depth arrays: one that keeps the three rules of the ranges, one that starts
\* before 0, one that starts after 0, one that ends before the receiver range, one
\* with a range repeated, one with the ranges out of order
GoodRanges == Array2(<<<<0, 20>>, <<1000, 30>>>>)

RangeArrays ==
    { GoodRanges,
      Array2(<<<<-100, 20>>, <<2000, 30>>>>),
      Array2(<<<<100, 20>>, <<1000, 30>>>>),
      Array2(<<<<0, 20>>, <<500, 30>>>>),
      Array2(<<<<0, 20>>, <<1000, 25>>, <<1000, 30>>>>),
      Array2(<<<<0, 20>>, <<2000, 25>>, <<1000, 30>>>>) }

\* the assignments made in the behaviours of SpecRanges, <<key, value, value is None>>
RangeAssignments ==
    {<<"depth", v, FALSE>> : v \in {Scalar(25), Scalar(20)} \cup RangeArrays}
    \cup {<<"surface", v, FALSE>> : v \in RangeArrays}
    \cup {<<"surface", NoArray, TRUE>>}
    \cup {<<"receiver_range", v, FALSE>> : v \in {Scalar(1000), Array1(<<500, 1000>>)}}

NextRanges ==
    \/ \E a \in RangeAssignments : SetAttr(a[1], a[2], a[3])
    \/ Check

SpecRanges == InitEnv /\ [][NextRanges]_vars

-----------------------------------------------------------------------------
(* Properties of the range-varying surface and bottom *)

\* the ranges of a are strictly increasing, the first is at or before 0 and the last
\* at or beyond max_range
RangeRules(a, max_range) ==
    /\ \A i \in 1..(Len(a.v) - 1) : a.v[i][1] < a.v[i + 1][1]
    /\ a.v[1][1] <= 0
    /\ a.v[Len(a.v)][1] >= max_range

\* C24 as stated: check() of an environment whose surface array, or whose depth
\* array, breaks one of the three rules of the ranges raises the validation error.
C24_RangeRulesEnforced ==
    (ret.op = "check" /\ ret.res.ok) =>
        /\ env.surface /= NoArray => RangeRules(env.surface, np_max(env.receiver_range))
        /\ np_size(env.depth) > 1 => RangeRules(env.depth, np_max(env.receiver_range))

\* C24, the part that holds: the three rules for the surface array, and for the depth
\* array the strictly increasing ranges and the last range; a check() that fails
\* here raises the validation error
C24_SurfaceRulesEnforced ==
    ret.op = "check" =>
        /\ ret.res.ok =>
              /\ env.surface /= NoArray =>
                    RangeRules(env.surface, np_max(env.receiver_range))
              /\ np_size(env.depth) > 1 =>
                    \/ RangeRules(env.depth, np_max(env.receiver_range))
                    \/ env.depth.v[1][1] > 0
        /\ ~ret.res.ok => ret.res.err = "ValueError"

\* C24: check() accepted a depth array whose first range is after 0
C24_LateFirstRangeAccepted ==
    /\ ret.op = "check"
    /\ ret.res.ok
    /\ np_size(env.depth) > 1
    /\ env.depth.v[1][1] > 0

\* C28 as stated: in these behaviours, where depth_max and box_depth are never
\* assigned by the caller, a successful check() leaves depth_max the maximum of the
\* depth field and box_depth 1.01 times that (box_depth is held in hundredths).
C28_DerivedDepthsFollowDepth ==
    (ret.op = "check" /\ ret.res.ok) =>
        LET m == IF np_size(env.depth) = 1 THEN env.depth.v[1][1]
                 ELSE col_max(env.depth.v, 2, 1)
        IN  /\ env.depth_max = m
            /\ env.box_depth = 101 * m

\* C28: a successful check() left a depth_max that is not the maximum of the depth
\* field
C28_StaleDepthMax ==
    /\ ret.op = "check"
    /\ ret.res.ok
    /\ np_size(env.depth) = 1
    /\ env.depth_max /= env.depth.v[1][1]

-----------------------------------------------------------------------------
(* Properties of the cut of the sound speed table *)

\* the rows of table t above depth d, in their order
RECURSIVE RowsAbove(_, _, _)
RowsAbove(t, d, i) ==
    IF i > Len(t.index) THEN [index |-> <<>>, speed |-> <<>>]
    ELSE LET rest == RowsAbove(t, d, i + 1)
         IN  IF t.index[i] < d
             THEN [index |-> <<t.index[i]>> \o rest.index,
                   speed |-> <<t.speed[i]>> \o rest.speed]
             ELSE rest

\* the speed at depth d by linear interpolation between the rows of t around d
SpeedAt(t, d) ==
    LET i == CHOOSE k \in 1..(Len(t.index) - 1) : t.index[k] <= d /\ d <= t.index[k + 1]
    IN  t.speed[i]
        + ((t.speed[i + 1] - t.speed[i]) * (d - t.index[i])) \div (t.index[i + 1] - t.index[i])

\* a table of one speed column with at least two rows that ends below depth d
EndsBelow(t, d) ==
    /\ \/ t.kind = "array" /\ t.ncols = 2
       \/ t.kind = "table" /\ t.ncols = 1
    /\ Len(t.index) >= 2
    /\ t.index[1] <= d
    /\ t.index[Len(t.index)] > d

\* C29 as stated: a successful check() of an environment whose table of one speed
\* column ends below depth_max leaves the rows of the table above depth_max, each
\* with its depth and its speed, followed by one row at depth_max with the
\* interpolated speed.
C29_CutKeepsRows ==
    [][(ret'.op = "check" /\ ret'.res.ok /\ EndsBelow(env.soundspeed, env'.depth_max)) =>
          LET kept == RowsAbove(env.soundspeed, env'.depth_max, 1)
          IN  /\ env'.soundspeed.index = Append(kept.index, env'.depth_max)
              /\ env'.soundspeed.speed =
                    Append(kept.speed, SpeedAt(env.soundspeed, env'.depth_max))]_vars

\* C29, what the cut does keep: the depths above depth_max of a table whose depth_max
\* is none of its depths, then depth_max, and the interpolated speed in the last row
C29_CutKeepsDepths ==
    [][(/\ ret'.op = "check" /\ ret'.res.ok
        /\ EndsBelow(env.soundspeed, env'.depth_max)
        /\ \A i \in 1..Len(env.soundspeed.index) :
              env.soundspeed.index[i] /= env'.depth_max) =>
          LET kept == RowsAbove(env.soundspeed, env'.depth_max, 1)
              n == Len(env'.soundspeed.speed)
          IN  /\ env'.soundspeed.index = Append(kept.index, env'.depth_max)
              /\ env'.soundspeed.speed[n] = SpeedAt(env.soundspeed, env'.depth_max)]_vars

\* C29: check() cut the table 0, 10, 30 at depth_max 20 and the row at depth 10 has
\* the speed 20
C29_DepthInSpeedColumn ==
    /\ ret.op = "check"
    /\ ret.res.ok
    /\ env.depth_max = 20
    /\ env.soundspeed.index = <<0, 10, 20>>
    /\ env.soundspeed.speed = <<1500, 20, 1520>>

-----------------------------------------------------------------------------
(* Environment: write() after assignments and check() *)

\* env.write(taskcode, fh, fname_base) on an environment that check() has accepted
\* since its last assignment, with fh the env file newly opened at the base name
Write ==
    /\ files = NoFiles
    /\ env.checked
    /\ LET w == write(env, "A", _prepare_env_file(NoFiles, OutBase), OutBase)
       IN  /\ files' = w.files
           /\ ret' = [op |-> "write", res |-> w.res]
    /\ UNCHANGED <<_models, path, env, run, comp, heap, calls>>

\* the files written are removed, as run does at its end (bellhop.py:86, 124-130)
RmFiles ==
    /\ files /= NoFiles
    /\ files' = _rm_files(files, OutBase, FALSE)
    /\ ret' = [op |-> "rm_files"]
    /\ UNCHANGED <<_models, path, env, run, comp, heap, calls>>

\* the caller assigns and checks between two writes
NextWrite ==
    \/ /\ files = NoFiles
       /\ \/ \E a \in ArrayAssignments : SetAttr(a[1], a[2], a[3])
          \/ \E a \in StringAssignments : SetAttr(a[1], a[2], a[3])
          \/ Check
    \/ Write
    \/ RmFiles

SpecWrite == InitEnv /\ [][NextWrite]_vars

-----------------------------------------------------------------------------
(* Properties of write() *)

\* the file of extension x was written at the base name
Emitted(x) == <<OutBase, x>> \in DOMAIN files

\* C27: after write() of a checked environment the bathymetry file is there exactly
\* when the bottom options of the env text carry the from-file code of the
\* bathymetry, the altimetry file exactly when the top options carry that of the
\* altimetry, each reflection-coefficient file exactly when the boundary condition
\* code is from-file, and write() has not raised.
C27_AuxiliaryFilesMatchText ==
    ret.op = "write" =>
        LET text == files[<<OutBase, ext_env>>]
        IN  /\ Emitted(ext_bty) <=> text.botopt.bathy = "~"
            /\ Emitted(ext_ati) <=> text.topopt.alti = "~"
            /\ Emitted(ext_trc) <=> text.topopt.bc = "F"
            /\ Emitted(ext_brc) <=> text.botopt.bc = "F"
            /\ ret.res.ok

\* C27, the part that holds: a file that is written is declared in the env text, and
\* a reflection-coefficient file is begun exactly when its code is from-file
C27_EmittedFilesDeclared ==
    ret.op = "write" =>
        LET text == files[<<OutBase, ext_env>>]
        IN  /\ Emitted(ext_bty) => text.botopt.bathy = "~"
            /\ Emitted(ext_ati) => text.topopt.alti = "~"
            /\ Emitted(ext_trc) <=> text.topopt.bc = "F"
            /\ ret.res.ok => (Emitted(ext_brc) <=> text.botopt.bc = "F")

\* C27: the env text declares the bathymetry from its file and write() returned
\* without writing the file
C27_DeclaredFileMissing ==
    /\ ret.op = "write"
    /\ ret.res.ok
    /\ files[<<OutBase, ext_env>>].botopt.bathy = "~"
    /\ ~Emitted(ext_bty)

\* C27: write() of a checked environment raised: the surface boundary condition is
\* from-file and there is no coefficient table
C27_WriteRaised ==
    /\ ret.op = "write"
    /\ ~ret.res.ok
    /\ env.surface_boundary_condition = from_file
    /\ env.surface_reflection_coefficient = NoArray

====
